---- MODULE Spec2Model ----
(***************************************************************************)
(* A model of the playbook metadata engine (vnykmshr/playbook):            *)
(*   - scripts/reconcile-metadata.py      the reconciler (check / fix)     *)
(*   - scripts/validate-extracted-metadata.py   MetadataValidator          *)
(*   - scripts/evolve.py                  PlaybookEvolutionEngine          *)
(*   - scripts/validate-conventions.py    ConventionValidator              *)
(*   - scripts/extract-playbook-metadata.py     PlaybookMetadataExtractor  *)
(* A document's text is a sequence of lines; a line is a record            *)
(* [kind, style, value].  Every file ends with a newline.                  *)
(***************************************************************************)
EXTENDS Integers, Sequences, FiniteSets, TLC

VARIABLES
    files,        \* reconciler corpus: path -> content (sequence of lines)
    rc_pc,        \* position of reconcile main(): idle / scan / dispatch / fix
    rc_action,    \* sys.argv[1] of the current (or last completed) run
    rc_prev,      \* action of the run completed before it ("none" at first)
    rc_idx,       \* loop index of the scan loop or of the fix loop
    rc_conflicts, \* the conflicts list of main()
    rc_state,     \* per document: UNCHECKED / CONSISTENT / CONFLICT / RESOLVED
    rc_before,    \* the corpus as it was when the current run started
    mv_metadata,  \* MetadataValidator: the "commands" of the metadata file, in file order
    mv_errors,    \* MetadataValidator.errors
    mv_warnings,  \* MetadataValidator.warnings
    mv_result,    \* what the last validate() returned ("none" before the first)
    mv_base,      \* lengths of errors and warnings when the last validate() began
    mv_runs,      \* validate() calls made so far
    docs,         \* command documents under commands/: file name -> document
    ev_pc,        \* PlaybookEvolutionEngine: new / loaded / validated
    ev_commands,  \* PlaybookEvolutionEngine.commands
    ev_issues,    \* what validate_metadata() returned: file name -> issues
    ev_warnings,  \* PlaybookEvolutionEngine.warnings
    cv_idx,       \* ConventionValidator.run(): index of the next file
    cv_errors,    \* ConventionValidator.errors
    cv_warnings,  \* ConventionValidator.warnings
    cv_passed,    \* ConventionValidator.passed
    ex_fs,        \* files under commands/: path -> file (absent, unreadable or a text)
    ex_pc,        \* PlaybookMetadataExtractor: new / extracted / saved
    ex_valid_commands, \* PlaybookMetadataExtractor.valid_commands
    ex_metadata,  \* PlaybookMetadataExtractor.metadata, in insertion order
    ex_warnings,  \* PlaybookMetadataExtractor.warnings
    ex_errors,    \* PlaybookMetadataExtractor.errors
    ex_complete,  \* PlaybookMetadataExtractor.complete_metadata
    ex_result,    \* what the last extract_all() returned
    ex_saved,     \* the output file save_metadata() wrote
    ex_base,      \* length of errors when the last extract_all() began
    ex_runs,      \* extract_all() calls made so far
    ex_clock,     \* datetime.now(timezone.utc), as last read
    ex_prev,      \* the records the extract_all() call before the last returned
    sc_metadata,  \* scorer: the metadata record it is given
    sc_content,  \* scorer: the marks of the document text it looks for
    sc_scores,  \* scorer: a mapping field -> score, in hundredths
    sc_average,  \* scorer: the average of sc_scores, when sc_pc says so
    sc_pc, \* scorer: given / scored / averaged
    fx_text,  \* field extractors: the text an extractor is given
    fx_field,  \* field extractors: the field extracted ("none" before)
    fx_result, \* field extractors: what the extractor returned
    ac_git_state,  \* context analyzer: the git state analysed
    ac_phase,  \* context analyzer: the workflow phase ("" before detection)
    ac_file_types,  \* context analyzer: changed files by category
    ac_recommendations,  \* context analyzer: the recommendations generated
    ac_pc, \* context analyzer: the step reached
    pl_table,  \* pipeline: the rows of the events table
    pl_events,  \* pipeline: the list given to the last ingest_events call
    pl_result,  \* pipeline: what the last call returned
    pl_stored,  \* pipeline: the rows the last call committed
    pl_pc,  \* pipeline: how the last call ended
    pl_runs, \* pipeline: ingest_events calls so far
    dx_doc,  \* one document: what the extractors of a field find in it
    dx_field,  \* one document: the field extracted ("none" before)
    dx_value,  \* one document: the value of the field
    dx_confidence, \* one document: the confidence of the field, in hundredths
    gm_category,  \* metadata generator: the directory of the file
    gm_file,  \* metadata generator: the content of the file
    gm_original,  \* metadata generator: the content before the first run
    gm_runs, \* metadata generator: runs with --apply so far
    el_cycles,  \* evolution log: the cycles of the log
    el_last  \* evolution log: the last call, its cycle name and what it returned

rcVars == <<files, rc_pc, rc_action, rc_prev, rc_idx, rc_conflicts, rc_state, rc_before>>

mvVars == <<mv_metadata, mv_errors, mv_warnings, mv_result, mv_base, mv_runs>>

evVars ==
    <<docs, ev_pc, ev_commands, ev_issues, ev_warnings,
      cv_idx, cv_errors, cv_warnings, cv_passed>>

exVars ==
    <<ex_fs, ex_pc, ex_valid_commands, ex_metadata, ex_warnings, ex_errors,
      ex_complete, ex_result, ex_saved, ex_base, ex_runs, ex_clock, ex_prev>>

scVars == <<sc_metadata, sc_content, sc_scores, sc_average, sc_pc>>

fxVars == <<fx_text, fx_field, fx_result>>

acVars == <<ac_git_state, ac_phase, ac_file_types, ac_recommendations, ac_pc>>

plVars == <<pl_table, pl_events, pl_result, pl_stored, pl_pc, pl_runs>>

dxVars == <<dx_doc, dx_field, dx_value, dx_confidence>>

gmVars == <<gm_category, gm_file, gm_original, gm_runs>>

elVars == <<el_cycles, el_last>>

vars == <<rcVars, mvVars, evVars, exVars, scVars, fxVars, acVars, plVars, dxVars, gmVars, elVars>>

\* what an operation of one script leaves alone: the state of the others
nonRcVars == <<mvVars, evVars, exVars, scVars, fxVars, acVars, plVars, dxVars, gmVars, elVars>>

nonMvVars == <<rcVars, evVars, exVars, scVars, fxVars, acVars, plVars, dxVars, gmVars, elVars>>

nonEvVars == <<rcVars, mvVars, exVars, scVars, fxVars, acVars, plVars, dxVars, gmVars, elVars>>

nonExVars == <<rcVars, mvVars, evVars, scVars, fxVars, acVars, plVars, dxVars, gmVars, elVars>>

nonScVars == <<rcVars, mvVars, evVars, exVars, fxVars, acVars, plVars, dxVars, gmVars, elVars>>

nonFxVars == <<rcVars, mvVars, evVars, exVars, scVars, acVars, plVars, dxVars, gmVars, elVars>>

nonAcVars == <<rcVars, mvVars, evVars, exVars, scVars, fxVars, plVars, dxVars, gmVars, elVars>>

nonPlVars == <<rcVars, mvVars, evVars, exVars, scVars, fxVars, acVars, dxVars, gmVars, elVars>>

nonDxVars == <<rcVars, mvVars, evVars, exVars, scVars, fxVars, acVars, plVars, gmVars, elVars>>

nonGmVars == <<rcVars, mvVars, evVars, exVars, scVars, fxVars, acVars, plVars, dxVars, elVars>>

nonElVars == <<rcVars, mvVars, evVars, exVars, scVars, fxVars, acVars, plVars, dxVars, gmVars>>

\* the state of a script that takes no part in a specification
RcIdle ==
    /\ files = <<>>
    /\ rc_pc = "off"
    /\ rc_action = "none"
    /\ rc_prev = "none"
    /\ rc_idx = 0
    /\ rc_conflicts = <<>>
    /\ rc_state = <<>>
    /\ rc_before = <<>>

MvIdle ==
    /\ mv_metadata = <<>>
    /\ mv_errors = <<>>
    /\ mv_warnings = <<>>
    /\ mv_result = "off"
    /\ mv_base = <<0, 0>>
    /\ mv_runs = 0

EvIdle ==
    /\ docs = <<>>
    /\ ev_pc = "off"
    /\ ev_commands = <<>>
    /\ ev_issues = <<>>
    /\ ev_warnings = <<>>
    /\ cv_idx = 0
    /\ cv_errors = <<>>
    /\ cv_warnings = <<>>
    /\ cv_passed = 0

ExIdle ==
    /\ ex_fs = <<>>
    /\ ex_pc = "off"
    /\ ex_valid_commands = {}
    /\ ex_metadata = <<>>
    /\ ex_warnings = <<>>
    /\ ex_errors = <<>>
    /\ ex_complete = <<>>
    /\ ex_result = <<>>
    /\ ex_saved = <<>>
    /\ ex_base = 0
    /\ ex_runs = 0
    /\ ex_clock = 0
    /\ ex_prev = <<>>

ScIdle ==
    /\ sc_metadata = <<>>
    /\ sc_content = <<>>
    /\ sc_scores = <<>>
    /\ sc_average = <<>>
    /\ sc_pc = "off"

FxIdle ==
    /\ fx_text = <<>>
    /\ fx_field = "off"
    /\ fx_result = <<>>

AcIdle ==
    /\ ac_git_state = <<>>
    /\ ac_phase = ""
    /\ ac_file_types = <<>>
    /\ ac_recommendations = <<>>
    /\ ac_pc = "off"

PlIdle ==
    /\ pl_table = <<>>
    /\ pl_events = <<>>
    /\ pl_result = 0
    /\ pl_stored = 0
    /\ pl_pc = "off"
    /\ pl_runs = 0

DxIdle ==
    /\ dx_doc = <<>>
    /\ dx_field = "off"
    /\ dx_value = ""
    /\ dx_confidence = 0

GmIdle ==
    /\ gm_category = ""
    /\ gm_file = <<>>
    /\ gm_original = <<>>
    /\ gm_runs = 0

ElIdle ==
    /\ el_cycles = <<>>
    /\ el_last = <<>>

(***************************************************************************)
(* Bounds of the model.                                                    *)
(***************************************************************************)
MaxFM == 2      \* lines in a front-matter block
MaxBody == 2    \* lines in a document body
MaxRefs == 2    \* references held by the first command of a metadata file
MaxValidateRuns == 2   \* validate() calls in one behaviour
MaxRelated == 11       \* related commands a document lists
MaxExtractRuns == 2    \* extract_all() calls in one behaviour
MaxTierList == 2       \* tiers listed behind a Tier: marker
MaxTierRows == 2       \* table rows with a bolded tier cell
MaxSectionLines == 4   \* lines of a text with sections
MaxCommits == 6        \* commits on the branch
MaxEvents == 2         \* events in one ingest_events call
MaxIngestRuns == 2     \* ingest_events calls in one behaviour
MaxDocBody == 4        \* lines below the front matter of a document
MaxFrequencyLines == 3  \* lines of a text with a When to Use section
MaxOpeningLines == 2   \* first lines of a document
MaxApplyRuns == 4      \* runs of generate-metadata --apply
MaxCycles == 2         \* cycles in the evolution log
MaxCycleChanges == 1   \* changes recorded in one cycle

(***************************************************************************)
(* Helpers.                                                                *)
(***************************************************************************)
SeqsUpTo(S, n) == UNION {[1..k -> S] : k \in 0..n}

Min(S) == CHOOSE x \in S : \A y \in S : x <= y

NoneVal == "None"

\* Python truthiness of an Optional[str]
Truthy(x) == x /= NoneVal /\ x /= ""

(***************************************************************************)
(* Document lines.                                                         *)
(***************************************************************************)
Hints == {"sonnet", "opus", "haiku"}

Line(kind, style, value) == [kind |-> kind, style |-> style, value |-> value]

\* "---"
DELIM == Line("delim", "none", "")
\* model_hint: "v"   (quoted)   or   model_hint: v   (bare)
ModelHintLine(style, v) == Line("model_hint", style, v)
\* title: "t"
TitleLine == Line("title", "quoted", "t")
\* **Resource Hint:** v
MarkerLine(v) == Line("marker", "none", v)
\* any other prose
TextLine == Line("text", "none", "")

FMLines == {ModelHintLine(s, v) : s \in {"quoted", "bare"}, v \in Hints} \cup {TitleLine}

\* a body may quote a front-matter line (a code sample)
BodyLines ==
    {MarkerLine(v) : v \in Hints} \cup {TextLine, ModelHintLine("quoted", "sonnet")}

\* front-matter bodies: at least one line, at most one model_hint key
FMBodies ==
    {fm \in SeqsUpTo(FMLines, MaxFM) :
        /\ Len(fm) >= 1
        /\ Cardinality({i \in 1..Len(fm) : fm[i].kind = "model_hint"}) <= 1}

FMBlocks == {<<>>} \cup {<<DELIM>> \o fm \o <<DELIM>> : fm \in FMBodies}

Bodies == SeqsUpTo(BodyLines, MaxBody)

Contents == {fm \o b : fm \in FMBlocks, b \in Bodies}

\* the documents the second file of the corpus is drawn from
OtherContents ==
    { <<TextLine>>,
      <<DELIM, ModelHintLine("quoted", "opus"), DELIM, MarkerLine("opus")>>,
      <<DELIM, TitleLine, ModelHintLine("quoted", "haiku"), DELIM, MarkerLine("sonnet")>> }

(***************************************************************************)
(* The corpus: commands/<category>/pb-*.md, in sorted() order of the path. *)
(***************************************************************************)
Path(dir, name) == [dir |-> dir, name |-> name]

Paths == {Path("core", "pb-b"), Path("planning", "pb-a")}

DirRank(d) == CASE d = "core" -> 1 [] d = "planning" -> 2 [] OTHER -> 3

NameRank(n) == CASE n = "pb-a" -> 1 [] n = "pb-b" -> 2 [] OTHER -> 3

PathLess(p, q) ==
    \/ DirRank(p.dir) < DirRank(q.dir)
    \/ DirRank(p.dir) = DirRank(q.dir) /\ NameRank(p.name) < NameRank(q.name)

\* sorted(commands_dir.glob("**/pb-*.md"))
RECURSIVE SortedPaths(_)
SortedPaths(S) ==
    IF S = {} THEN <<>>
    ELSE LET first == CHOOSE p \in S : \A q \in S \ {p} : PathLess(p, q)
         IN <<first>> \o SortedPaths(S \ {first})

(***************************************************************************)
(* reconcile-metadata.py                                                   *)
(***************************************************************************)
\* re.search(r'\*\*Resource Hint:\*\*\s+(sonnet|opus|haiku)', content)
extract_resource_hint(content) ==
    LET hits == {i \in 1..Len(content) :
                    content[i].kind = "marker" /\ content[i].value \in Hints}
    IN IF hits = {} THEN NoneVal ELSE content[Min(hits)].value

\* re.match(r'^---\n(.*?)\n---\n', content, re.DOTALL): the index of the
\* closing delimiter line, 0 when there is no match
FrontmatterEnd(content) ==
    LET closing == {k \in 3..Len(content) : content[k] = DELIM}
    IN IF Len(content) >= 3 /\ content[1] = DELIM /\ closing /= {}
       THEN Min(closing) ELSE 0

\* a "key: value" line of the front-matter (a line with a colon)
HasColon(line) == line.kind \in {"model_hint", "title", "marker"}

LineKey(line) == IF line.kind = "marker" THEN "**Resource Hint" ELSE line.kind

\* the text after the colon, stripped: a quoted value keeps its quotes
RawValue(line) == [style |-> line.style, value |-> line.value]

\* str.strip('"')
StripQuotes(raw) == raw.value

\* extract_frontmatter(content)[0]: key -> raw value, the last line of a key wins
extract_frontmatter(content) ==
    LET k == FrontmatterEnd(content)
        keyed == {i \in 2..(k - 1) : HasColon(content[i])}
        keys == {LineKey(content[i]) : i \in keyed}
        last(key) == CHOOSE i \in keyed :
                        /\ LineKey(content[i]) = key
                        /\ \A j \in keyed : LineKey(content[j]) = key => j <= i
    IN [key \in keys |-> RawValue(content[last(key)])]

\* metadata.get('model_hint', '').strip('"')
MetaHint(content) ==
    LET metadata == extract_frontmatter(content)
    IN IF "model_hint" \in DOMAIN metadata
       THEN StripQuotes(metadata["model_hint"]) ELSE ""

\* mutant: the comparison of the two hints is left out
IsConflict_NoCompare(content) ==
    Truthy(extract_resource_hint(content)) /\ Truthy(MetaHint(content))

\* if body_hint and meta_hint and body_hint != meta_hint
IsConflict(content) ==
    LET body_hint == extract_resource_hint(content)
        meta_hint == MetaHint(content)
    IN Truthy(body_hint) /\ Truthy(meta_hint) /\ body_hint /= meta_hint

\* re.sub(r'model_hint:\s*"[^"]*"', f'model_hint: "{new}"', yaml_content), per line
SubModelHint(line, new_model_hint) ==
    IF line.kind = "model_hint" /\ line.style = "quoted"
    THEN ModelHintLine("quoted", new_model_hint)
    ELSE line

\* mutant: the new block is put before the whole content, not before rest
update_keeps_old_block(content, new_model_hint) ==
    LET k == FrontmatterEnd(content)
    IN IF k = 0 THEN content
       ELSE [i \in 1..k |->
                IF i > 1 /\ i < k
                THEN SubModelHint(content[i], new_model_hint)
                ELSE content[i]] \o content

\* f"---\n{new_yaml}\n---\n{rest}", or content when there is no front-matter
update_metadata_model_hint(content, new_model_hint) ==
    LET k == FrontmatterEnd(content)
    IN IF k = 0 THEN content
       ELSE [i \in 1..Len(content) |->
                IF i > 1 /\ i < k
                THEN SubModelHint(content[i], new_model_hint)
                ELSE content[i]]

Actions == {"--check", "--fix", "--bogus"}

RcInit ==
    /\ files \in {f \in [Paths -> Contents] : f[Path("planning", "pb-a")] \in OtherContents}
    /\ rc_pc = "idle"
    /\ rc_action = "none"
    /\ rc_prev = "none"
    /\ rc_idx = 0
    /\ rc_conflicts = <<>>
    /\ rc_state = [p \in Paths |-> "UNCHECKED"]
    /\ rc_before = files
    /\ MvIdle
    /\ EvIdle
    /\ ExIdle
    /\ ScIdle
    /\ FxIdle
    /\ AcIdle
    /\ PlIdle
    /\ DxIdle
    /\ GmIdle
    /\ ElIdle

\* main() is entered: action = sys.argv[1] (default --check), conflicts = []
RcStart ==
    /\ rc_pc = "idle"
    /\ \E a \in Actions : rc_action' = a
    /\ rc_prev' = rc_action
    /\ rc_pc' = "scan"
    /\ rc_idx' = 1
    /\ rc_conflicts' = <<>>
    /\ rc_state' = [p \in Paths |-> "UNCHECKED"]
    /\ rc_before' = files
    /\ UNCHANGED files
    /\ UNCHANGED nonRcVars

\* one iteration of: for filepath in sorted(commands_dir.glob("**/pb-*.md"))
RcScanFile ==
    /\ rc_pc = "scan"
    /\ rc_idx <= Cardinality(Paths)
    /\ LET p == SortedPaths(Paths)[rc_idx]
           content == files[p]
       IN IF IsConflict(content)
          THEN /\ rc_conflicts' = Append(rc_conflicts,
                                    [path |-> p,
                                     body_hint |-> extract_resource_hint(content),
                                     meta_hint |-> MetaHint(content)])
               /\ rc_state' = [rc_state EXCEPT ![p] = "CONFLICT"]
          ELSE /\ rc_conflicts' = rc_conflicts
               /\ rc_state' = [rc_state EXCEPT ![p] = "CONSISTENT"]
    /\ rc_idx' = rc_idx + 1
    /\ rc_pc' = IF rc_idx = Cardinality(Paths) THEN "dispatch" ELSE "scan"
    /\ UNCHANGED <<files, rc_action, rc_prev, rc_before>>
    /\ UNCHANGED nonRcVars

\* if action == "--check": report and return
RcCheckReport ==
    /\ rc_pc = "dispatch"
    /\ rc_action = "--check"
    /\ rc_pc' = "idle"
    /\ UNCHANGED <<files, rc_action, rc_prev, rc_idx, rc_conflicts, rc_state, rc_before>>
    /\ UNCHANGED nonRcVars

\* if action == "--fix": if not conflicts: return
RcFixNone ==
    /\ rc_pc = "dispatch"
    /\ rc_action = "--fix"
    /\ rc_conflicts = <<>>
    /\ rc_pc' = "idle"
    /\ UNCHANGED <<files, rc_action, rc_prev, rc_idx, rc_conflicts, rc_state, rc_before>>
    /\ UNCHANGED nonRcVars

\* mutant: the fix loop is entered whatever the action is
RcFixBegin_AnyAction ==
    /\ rc_pc = "dispatch"
    /\ rc_conflicts /= <<>>
    /\ rc_pc' = "fix"
    /\ rc_idx' = 1
    /\ UNCHANGED <<files, rc_action, rc_prev, rc_conflicts, rc_state, rc_before>>
    /\ UNCHANGED nonRcVars

\* if action == "--fix": the fix loop is entered
RcFixBegin ==
    /\ rc_pc = "dispatch"
    /\ rc_action = "--fix"
    /\ rc_conflicts /= <<>>
    /\ rc_pc' = "fix"
    /\ rc_idx' = 1
    /\ UNCHANGED <<files, rc_action, rc_prev, rc_conflicts, rc_state, rc_before>>
    /\ UNCHANGED nonRcVars

\* one iteration of: for item in conflicts (read, update, write back)
RcFixFile ==
    /\ rc_pc = "fix"
    /\ rc_idx <= Len(rc_conflicts)
    /\ LET item == rc_conflicts[rc_idx]
           content == files[item.path]
           updated_content == update_metadata_model_hint(content, item.body_hint)
       IN /\ files' = [files EXCEPT ![item.path] = updated_content]
          /\ rc_state' = [rc_state EXCEPT ![item.path] = "RESOLVED"]
    /\ rc_idx' = rc_idx + 1
    /\ rc_pc' = IF rc_idx = Len(rc_conflicts) THEN "idle" ELSE "fix"
    /\ UNCHANGED <<rc_action, rc_prev, rc_conflicts, rc_before>>
    /\ UNCHANGED nonRcVars

\* any other action: usage message, sys.exit(1)
RcUsage ==
    /\ rc_pc = "dispatch"
    /\ rc_action \notin {"--check", "--fix"}
    /\ rc_pc' = "idle"
    /\ UNCHANGED <<files, rc_action, rc_prev, rc_idx, rc_conflicts, rc_state, rc_before>>
    /\ UNCHANGED nonRcVars

RcNext ==
    \/ RcStart
    \/ RcScanFile
    \/ RcCheckReport
    \/ RcFixNone
    \/ RcFixBegin
    \/ RcFixFile
    \/ RcUsage

SpecReconcile == RcInit /\ [][RcNext]_vars

(***************************************************************************)
(* Claims about the reconciler.                                            *)
(***************************************************************************)
\* the lines of the leading front-matter block, and the body below it
FrontMatterOf(content) ==
    LET k == FrontmatterEnd(content)
    IN IF k = 0 THEN <<>> ELSE SubSeq(content, 2, k - 1)

BodyOf(content) ==
    LET k == FrontmatterEnd(content)
    IN IF k = 0 THEN content ELSE SubSeq(content, k + 1, Len(content))

\* the body's Resource Hint: the value of the first marker of the body
DocBodyHint(content) ==
    LET b == BodyOf(content)
        hits == {i \in 1..Len(b) : b[i].kind = "marker"}
    IN IF hits = {} THEN NoneVal ELSE b[Min(hits)].value

\* the front-matter's model_hint, however it is written (bare or quoted)
DocModelHint(content) ==
    LET fm == FrontMatterOf(content)
        hits == {i \in 1..Len(fm) : fm[i].kind = "model_hint"}
    IN IF hits = {} THEN NoneVal ELSE fm[Min(hits)].value

DocDiverges(content) ==
    /\ DocBodyHint(content) /= NoneVal
    /\ DocModelHint(content) /= NoneVal
    /\ DocBodyHint(content) /= DocModelHint(content)

FixRunDone == rc_pc = "idle" /\ rc_action = "--fix"

\* C1: after a completed fix run no document's front-matter model_hint
\* differs from its body Resource Hint, whether the value is written bare or
\* quoted, and a check or fix run that follows directly reports no conflict.
C1_NoConflictAfterFix ==
    /\ FixRunDone => \A p \in Paths : ~DocDiverges(files[p])
    /\ (rc_pc = "idle" /\ rc_prev = "--fix" /\ rc_action \in {"--check", "--fix"})
          => rc_conflicts = <<>>

\* C2: a fix run that directly follows a fix run changes no file.
C2_FixIdempotent ==
    (FixRunDone /\ rc_prev = "--fix") => files = rc_before

\* the second fix run ended, after the first one had rewritten planning/pb-a
C2_Witness ==
    /\ FixRunDone
    /\ rc_prev = "--fix"
    /\ files[Path("planning", "pb-a")] =
          <<DELIM, TitleLine, ModelHintLine("quoted", "sonnet"), DELIM, MarkerLine("sonnet")>>

\* C3: a check run writes to no document, with or without conflicts.
C3_CheckReadOnly ==
    rc_action = "--check" => files = rc_before

\* a check run that found conflicts has ended
C3_Witness ==
    /\ rc_pc = "idle"
    /\ rc_action = "--check"
    /\ rc_conflicts /= <<>>

C4_Step(p) ==
    LET s == rc_state[p]
        t == rc_state'[p]
    IN /\ (rc_pc /= "idle" /\ s /= t) =>
              <<s, t>> \in {<<"UNCHECKED", "CONSISTENT">>,
                            <<"UNCHECKED", "CONFLICT">>,
                            <<"CONFLICT", "RESOLVED">>}
       /\ (s = "UNCHECKED" /\ t /= s) => (t = "CONFLICT" <=> DocDiverges(files[p]))
       /\ (s /= "RESOLVED" /\ t = "RESOLVED") => rc_action = "--fix"
       /\ (s = "CONSISTENT" /\ rc_pc /= "idle") => t = "CONSISTENT"
       /\ s = "CONSISTENT" => files'[p] = files[p]

\* C4: within a run a document moves only UNCHECKED -> CONSISTENT,
\* UNCHECKED -> CONFLICT or CONFLICT -> RESOLVED; it becomes CONFLICT exactly
\* when body hint and front-matter model_hint are both present and differ;
\* it becomes RESOLVED only in a fix run; a CONSISTENT document is never
\* rewritten and keeps its state.
C4_Transitions == [][\A p \in Paths : C4_Step(p)]_vars

\* a fix run resolved one document and left a consistent one alone
C4_Witness ==
    \E p, q \in Paths : rc_state[p] = "RESOLVED" /\ rc_state[q] = "CONSISTENT"

\* the lines of a front-matter block other than model_hint
OtherKeys(content) ==
    LET fm == FrontMatterOf(content)
    IN [i \in {j \in 1..Len(fm) : fm[j].kind /= "model_hint"} |-> fm[i]]

\* C5: when a fix run ends, each document that was in conflict has the body's
\* Resource Hint as its front-matter model_hint, with its body and its other
\* front-matter keys as before; every other document is unchanged.
C5_FixWritesOnlyModelHint ==
    FixRunDone =>
        \A p \in Paths :
            IF DocDiverges(rc_before[p])
            THEN /\ DocModelHint(files[p]) = DocBodyHint(rc_before[p])
                 /\ BodyOf(files[p]) = BodyOf(rc_before[p])
                 /\ OtherKeys(files[p]) = OtherKeys(rc_before[p])
            ELSE files[p] = rc_before[p]

(***************************************************************************)
(* validate-extracted-metadata.py: MetadataValidator                       *)
(***************************************************************************)
\* a reference as written in a list: leading slashes, then the command name
Ref(slashes, name) == [slashes |-> slashes, name |-> name]

NoRef == Ref(0, "")

\* mutant: the reference is compared as written, slashes included
lstrip_nothing(ref) == IF ref.slashes = 0 THEN ref.name ELSE "/..."

\* ref.lstrip("/")
lstrip(ref) == ref.name

Issue(command, type, field, reference, severity) ==
    [command |-> command, type |-> type, field |-> field,
     reference |-> reference, severity |-> severity]

RECURSIVE Flatten(_)
Flatten(seqs) ==
    IF seqs = <<>> THEN <<>> ELSE Head(seqs) \o Flatten(Tail(seqs))

ValidCategories ==
    {"core", "development", "planning", "reviews", "release",
     "deployment", "repo", "people", "templates"}

ValidTiers == {"XS", "S", "M", "L"}

ValidFrequencies ==
    {"daily", "weekly", "start-of-feature", "per-iteration", "per-pr",
     "pre-release", "on-incident", "one-time", "as-needed"}

RequiredFields == <<"command", "title", "category", "purpose">>

\* the errors _validate_command appends; scores are in hundredths
CommandErrors(command, metadata) ==
    LET missing == SelectSeq(RequiredFields, LAMBDA f : metadata[f] = "")
        crit == SelectSeq(<<"command", "title", "category">>,
                          LAMBDA f : metadata.confidence_scores[f] < 99)
    IN [i \in 1..Len(missing) |->
            Issue(command, "missing_required_field", missing[i], NoRef, "critical")]
       \o (IF metadata.command /= command
           THEN <<Issue(command, "invalid_field_value", "command", NoRef, "critical")>>
           ELSE <<>>)
       \o (IF metadata.category \notin ValidCategories
           THEN <<Issue(command, "invalid_category", "category", NoRef, "critical")>>
           ELSE <<>>)
       \o [i \in 1..Len(SelectSeq(metadata.tier, LAMBDA t : t \notin ValidTiers)) |->
            Issue(command, "invalid_tier", "tier", NoRef, "error")]
       \o [i \in 1..Len(crit) |->
            Issue(command, "low_confidence_critical_field", crit[i], NoRef, "critical")]

\* the warnings _validate_command appends
CommandWarnings(command, metadata) ==
    (IF metadata.frequency /= "" /\ metadata.frequency \notin ValidFrequencies
     THEN <<Issue(command, "invalid_frequency", "frequency", NoRef, "warning")>>
     ELSE <<>>)
    \o (IF metadata.average_confidence < 70
        THEN <<Issue(command, "low_average_confidence", "average_confidence", NoRef, "warning")>>
        ELSE <<>>)

\* one loop of _validate_references over a list (None counts as [])
FieldWarnings(command, field, refs, valid_commands) ==
    LET dangling == SelectSeq(refs, LAMBDA ref :
                        /\ lstrip(ref) \notin valid_commands
                        /\ (field = "related_commands" => lstrip(ref) /= command))
    IN [i \in 1..Len(dangling) |->
            Issue(command, "invalid_reference", field, dangling[i], "warning")]

\* mutant: the prerequisites loop is missing
ReferenceWarnings_NoPrerequisites(command, metadata, valid_commands) ==
    FieldWarnings(command, "related_commands", metadata.related_commands, valid_commands)
    \o FieldWarnings(command, "next_steps", metadata.next_steps, valid_commands)

\* the body of the loop of _validate_references for one command
ReferenceWarnings(command, metadata, valid_commands) ==
    FieldWarnings(command, "related_commands", metadata.related_commands, valid_commands)
    \o FieldWarnings(command, "next_steps", metadata.next_steps, valid_commands)
    \o FieldWarnings(command, "prerequisites", metadata.prerequisites, valid_commands)

\* commands.keys()
CommandNames(commands) == {commands[i].name : i \in 1..Len(commands)}

(* ---- the metadata files validate() is given ---- *)
MetaRecord(command, purpose, tier, frequency, related, next, prereq) ==
    [command |-> command, title |-> "T", category |-> "core", purpose |-> purpose,
     tier |-> tier, frequency |-> frequency,
     confidence_scores |-> [command |-> 100, title |-> 100, category |-> 100],
     average_confidence |-> 90,
     related_commands |-> related, next_steps |-> next, prerequisites |-> prereq]

RefFields == {"related_commands", "next_steps", "prerequisites"}

MvRefs == {Ref(1, "pb-a"), Ref(1, "pb-b"), Ref(1, "pb-ghost"), Ref(0, "pb-b")}

\* the references of pb-a, in the order they are written: (field, reference)
Placements == SeqsUpTo(RefFields \X MvRefs, MaxRefs)

ListOf(placements, field) ==
    LET picked == SelectSeq(placements, LAMBDA pl : pl[1] = field)
    IN [i \in 1..Len(picked) |-> picked[i][2]]

\* pb-a: complete, without purpose, or with a frequency outside the enumeration
MetaA(profile, placements) ==
    MetaRecord("pb-a",
               IF profile = "no_purpose" THEN "" ELSE "P",
               <<"S">>,
               IF profile = "bad_frequency" THEN "hourly" ELSE "daily",
               ListOf(placements, "related_commands"),
               ListOf(placements, "next_steps"),
               ListOf(placements, "prerequisites"))

\* pb-b, when the file holds it: without references, or with a dangling
\* related command and itself as next step
MetaB(linked) ==
    IF linked
    THEN MetaRecord("pb-b", "P", <<"M", "L">>, "as-needed",
                    <<Ref(1, "pb-ghost")>>, <<Ref(1, "pb-b")>>, <<>>)
    ELSE MetaRecord("pb-b", "P", <<>>, "as-needed", <<>>, <<>>, <<>>)

Entry(name, meta) == [name |-> name, meta |-> meta]

MetadataFiles ==
    {<<Entry("pb-a", MetaA(pr, pl))>> \o rest :
        pr \in {"ok", "no_purpose", "bad_frequency"},
        pl \in Placements,
        rest \in {<<>>, <<Entry("pb-b", MetaB(FALSE))>>, <<Entry("pb-b", MetaB(TRUE))>>}}

MvInit ==
    /\ mv_metadata \in MetadataFiles
    /\ mv_errors = <<>>
    /\ mv_warnings = <<>>
    /\ mv_result = "none"
    /\ mv_base = <<0, 0>>
    /\ mv_runs = 0
    /\ RcIdle
    /\ EvIdle
    /\ ExIdle
    /\ ScIdle
    /\ FxIdle
    /\ AcIdle
    /\ PlIdle
    /\ DxIdle
    /\ GmIdle
    /\ ElIdle

\* MetadataValidator.validate(metadata)
MvValidate ==
    /\ mv_runs < MaxValidateRuns
    /\ LET commands == mv_metadata
           valid_commands == CommandNames(commands)
           errs == Flatten([i \in 1..Len(commands) |->
                              CommandErrors(commands[i].name, commands[i].meta)])
           warns == Flatten([i \in 1..Len(commands) |->
                              CommandWarnings(commands[i].name, commands[i].meta)])
           refwarns == Flatten([i \in 1..Len(commands) |->
                              ReferenceWarnings(commands[i].name, commands[i].meta,
                                                valid_commands)])
       IN /\ mv_errors' = mv_errors \o errs
          /\ mv_warnings' = mv_warnings \o warns \o refwarns
          /\ mv_result' = IF Len(mv_errors \o errs) > 0 THEN "False" ELSE "True"
    /\ mv_base' = <<Len(mv_errors), Len(mv_warnings)>>
    /\ mv_runs' = mv_runs + 1
    /\ UNCHANGED mv_metadata
    /\ UNCHANGED nonMvVars

\* MetadataValidator(): a new validator, as main() makes one per process
MvNewValidator ==
    /\ mv_result \in {"True", "False"}
    /\ mv_errors' = <<>>
    /\ mv_warnings' = <<>>
    /\ mv_result' = "none"
    /\ mv_base' = <<0, 0>>
    /\ UNCHANGED <<mv_metadata, mv_runs>>
    /\ UNCHANGED nonMvVars

MvNext ==
    \/ MvValidate
    \/ MvNewValidator

SpecValidate == MvInit /\ [][MvNext]_vars

(***************************************************************************)
(* Claims about MetadataValidator.                                         *)
(***************************************************************************)
ValidateDone == mv_result \in {"True", "False"}

\* the number of elements of a sequence that satisfy Test
Count(seq, Test(_)) == Cardinality({i \in 1..Len(seq) : Test(seq[i])})

\* the document a reference names
RefTarget(ref) == ref.name

\* every reference of the three reference fields names a document of the corpus
RefsResolve(meta) ==
    \A f \in RefFields : \A j \in 1..Len(meta[f]) :
        RefTarget(meta[f][j]) \in CommandNames(mv_metadata)

HasErrorFor(name) == \E i \in 1..Len(mv_errors) : mv_errors[i].command = name

HasReferenceWarningFor(name) ==
    \E i \in 1..Len(mv_warnings) :
        mv_warnings[i].command = name /\ mv_warnings[i].type = "invalid_reference"

\* C6 as stated: a document the validator reports no error for (validate
\* returns True, or the error list has no entry for it) has only references
\* that name documents of the corpus.
C6_NoErrorImpliesIntegrity ==
    ValidateDone =>
        \A i \in 1..Len(mv_metadata) :
            ~HasErrorFor(mv_metadata[i].name) => RefsResolve(mv_metadata[i].meta)

\* C6 as amended: a document the validator reports no invalid_reference
\* warning for has only references that name documents of the corpus.
C6_NoWarningImpliesIntegrity ==
    ValidateDone =>
        \A i \in 1..Len(mv_metadata) :
            ~HasReferenceWarningFor(mv_metadata[i].name)
                => RefsResolve(mv_metadata[i].meta)

\* pb-a holds two references, both to pb-b, and got no warning
C6_Witness ==
    /\ ValidateDone
    /\ Len(mv_metadata) = 2
    /\ Len(mv_metadata[1].meta.related_commands) = 1
    /\ Len(mv_metadata[1].meta.prerequisites) = 1
    /\ ~HasReferenceWarningFor("pb-a")

\* the warnings the last validate() call appended
EmittedWarnings == SubSeq(mv_warnings, mv_base[2] + 1, Len(mv_warnings))

\* C7: in one validate run, per document D, field F and reference R, the
\* invalid_reference warnings for (D, F, R) are one per entry R of D.F when
\* R names no document of the corpus, and none when R names one.
C7_OneWarningPerDanglingEntry ==
    ValidateDone =>
        \A i \in 1..Len(mv_metadata) : \A f \in RefFields : \A r \in MvRefs :
            LET D == mv_metadata[i]
                emitted == Count(EmittedWarnings, LAMBDA w :
                                /\ w.command = D.name
                                /\ w.type = "invalid_reference"
                                /\ w.field = f
                                /\ w.reference = r)
                entries == Count(D.meta[f], LAMBDA x : x = r)
            IN emitted = IF RefTarget(r) \in CommandNames(mv_metadata) THEN 0 ELSE entries

\* pb-a lists a dangling and a resolving related command, and was validated by
\* a validator that had validated before
C7_Witness ==
    /\ ValidateDone
    /\ mv_base[2] > 0
    /\ Len(mv_metadata) = 2
    /\ mv_metadata[1].meta.related_commands = <<Ref(1, "pb-ghost"), Ref(1, "pb-b")>>

\* C8: a document whose related_commands names the document itself gets an
\* issue from validation; a self-reference is never accepted without one.
C8_SelfReferenceReported ==
    ValidateDone =>
        \A i \in 1..Len(mv_metadata) :
            LET D == mv_metadata[i]
            IN (\E j \in 1..Len(D.meta.related_commands) :
                    RefTarget(D.meta.related_commands[j]) = D.name)
               => \E issue \in {mv_errors[k] : k \in 1..Len(mv_errors)}
                          \cup {mv_warnings[k] : k \in 1..Len(mv_warnings)} :
                      issue.command = D.name

(***************************************************************************)
(* evolve.py: PlaybookEvolutionEngine.validate_metadata                    *)
(* validate-conventions.py: ConventionValidator.validate_related_commands  *)
(***************************************************************************)
\* validate-conventions.py: the hub allow-list and the two limits
HUB_COMMANDS == {"pb-patterns.md"}

RELATED_LIMIT == 5

HUB_RELATED_LIMIT == 10

\* sorted(commands_dir.glob("**/pb-*.md")), by file name
CommandFiles == <<"pb-a.md", "pb-patterns.md">>

\* filename.replace(".md", "")
Stem(filename) ==
    CASE filename = "pb-a.md" -> "pb-a"
      [] filename = "pb-patterns.md" -> "pb-patterns"

Repeat(x, n) == [i \in 1..n |-> x]

Range(seq) == {seq[i] : i \in 1..Len(seq)}

(* ---- front-matter values, as yaml.safe_load returns them ---- *)
YamlList(items) == [is_list |-> TRUE, items |-> items]

\* a scalar string where a list is expected
YamlScalar(s) == [is_list |-> FALSE, items |-> <<s>>]

\* a quoted last_reviewed value: whether it parses as %Y-%m-%d, and its age
ReviewDate(wellformed, days_old) == [wellformed |-> wellformed, days_old |-> days_old]

RequiredMeta ==
    <<"name", "title", "category", "difficulty", "model_hint",
      "execution_pattern", "related_commands", "tags", "last_reviewed">>

EvMeta(keys, name, category, difficulty, model_hint, related, tags, reviewed) ==
    [keys |-> keys, name |-> name, category |-> category,
     difficulty |-> difficulty, model_hint |-> model_hint,
     related_commands |-> related, tags |-> tags, last_reviewed |-> reviewed]

\* yaml.safe_load(...) or {}: an empty front-matter block
EmptyMeta ==
    EvMeta({}, "", "", "", "", YamlList(<<>>), YamlList(<<>>), ReviewDate(TRUE, 0))

\* n related commands, the last one the document itself when self is set
RelatedItems(n, self, stem) ==
    IF self /\ n > 0
    THEN [i \in 1..(n - 1) |-> "pb-x" \o ToString(i)] \o <<stem>>
    ELSE [i \in 1..n |-> "pb-x" \o ToString(i)]

EvProfiles ==
    {"ok", "empty", "no_name", "wrong_name", "bad_values", "old_review",
     "scalar_related"}

\* the front matter of file f under a profile, with n related commands
MetaOfProfile(f, profile, n, self) ==
    LET all == Range(RequiredMeta)
        related == RelatedItems(n, self, Stem(f))
    IN CASE profile = "ok" ->
              EvMeta(all, Stem(f), "core", "beginner", "sonnet",
                     YamlList(related), YamlList(<<"a", "b">>), ReviewDate(TRUE, 10))
         [] profile = "empty" -> EmptyMeta
         [] profile = "no_name" ->
              EvMeta(all \ {"name"}, "", "core", "beginner", "sonnet",
                     YamlList(related), YamlList(<<"a", "b">>), ReviewDate(TRUE, 10))
         [] profile = "wrong_name" ->
              EvMeta(all, "pb-other", "core", "beginner", "sonnet",
                     YamlList(related), YamlList(<<"a", "b">>), ReviewDate(TRUE, 10))
         [] profile = "bad_values" ->
              EvMeta(all, Stem(f), "misc", "easy", "gpt",
                     YamlList(related), YamlList(Repeat("t", 6)), ReviewDate(FALSE, 0))
         [] profile = "old_review" ->
              EvMeta(all, Stem(f), "core", "beginner", "sonnet",
                     YamlList(related), YamlList(<<>>), ReviewDate(TRUE, 120))
         [] profile = "scalar_related" ->
              EvMeta(all, Stem(f), "core", "beginner", "sonnet",
                     YamlScalar(IF self THEN Stem(f) ELSE "pb-x1"),
                     YamlScalar("a"), ReviewDate(TRUE, 10))

(* ---- document bodies, as validate_related_commands reads them ---- *)
\* kinds of line: "related_heading" is "## Related Commands", "heading"
\* another "## " line, "rule" a "---" line, "link" a "- `/pb-...`" line
Layouts == {"section_last", "then_heading", "then_rule", "no_heading"}

BodyOfLayout(layout, n) ==
    CASE layout = "section_last" ->
              <<"text", "heading", "related_heading">> \o Repeat("link", n)
      [] layout = "then_heading" ->
              <<"text", "related_heading">> \o Repeat("link", n) \o <<"heading", "link">>
      [] layout = "then_rule" ->
              <<"text", "related_heading">> \o Repeat("link", n) \o <<"rule", "link", "text">>
      [] layout = "no_heading" ->
              <<"text">> \o Repeat("link", n)

CommandDoc(has_fm, meta, body) == [has_fm |-> has_fm, meta |-> meta, body |-> body]

\* documents in every profile and layout
RichDocs(f) ==
    {CommandDoc(TRUE, MetaOfProfile(f, profile, n, self), BodyOfLayout(layout, n)) :
        profile \in EvProfiles, n \in 0..MaxRelated, self \in BOOLEAN,
        layout \in Layouts}

\* a document with regular front matter or none
PlainDoc(f, has_fm, n) ==
    CommandDoc(has_fm,
               IF has_fm THEN MetaOfProfile(f, "ok", n, FALSE) ELSE EmptyMeta,
               BodyOfLayout("section_last", n))

\* path.read_text().splitlines(): the front-matter block, then the body
ContentLines(doc) ==
    (IF doc.has_fm THEN <<"rule", "text", "rule">> ELSE <<>>) \o doc.body

(* ---- PlaybookEvolutionEngine ---- *)
\* extract_metadata(filepath)[0] with load_all_commands' has_metadata
LoadCommand(doc) == [metadata |-> doc.meta, has_metadata |-> doc.has_fm]

EvIssue(kind, field) == [kind |-> kind, field |-> field]

EvCategories ==
    {"core", "planning", "development", "deployment", "reviews", "repo",
     "people", "templates", "utilities"}

EvDifficulties == {"beginner", "intermediate", "advanced", "expert"}

EvModels == {"haiku", "sonnet", "opus"}

\* meta["name"] in meta["related_commands"]: membership in a list; for a
\* scalar string the substring test, which for these names is equality
NameInRelated(meta) == meta.name \in Range(meta.related_commands.items)

\* the related_commands checks of validate_metadata
RelatedIssues(meta) ==
    IF "related_commands" \in meta.keys
    THEN (IF ~meta.related_commands.is_list
          THEN <<EvIssue("INVALID", "related_commands")>>
          ELSE IF Len(meta.related_commands.items) > 5
          THEN <<EvIssue("TOO_MANY", "related_commands")>>
          ELSE <<>>)
         \o (IF "name" \in meta.keys /\ NameInRelated(meta)
             THEN <<EvIssue("CIRCULAR", "related_commands")>>
             ELSE <<>>)
    ELSE <<>>

TagIssues(meta) ==
    IF "tags" \in meta.keys
    THEN (IF ~meta.tags.is_list
          THEN <<EvIssue("INVALID", "tags")>>
          ELSE IF Len(meta.tags.items) > 5
          THEN <<EvIssue("TOO_MANY", "tags")>>
          ELSE <<>>)
    ELSE <<>>

\* the issues validate_metadata files under one filename
MetadataIssues(filename, cmd) ==
    IF ~cmd.has_metadata
    THEN <<EvIssue("MISSING", "front-matter")>>
    ELSE LET meta == cmd.metadata
             missing == SelectSeq(RequiredMeta, LAMBDA field : field \notin meta.keys)
         IN [i \in 1..Len(missing) |-> EvIssue("MISSING", missing[i])]
            \o (IF "name" \in meta.keys /\ meta.name /= Stem(filename)
                THEN <<EvIssue("MISMATCH", "name")>> ELSE <<>>)
            \o (IF "category" \in meta.keys /\ meta.category \notin EvCategories
                THEN <<EvIssue("INVALID", "category")>> ELSE <<>>)
            \o (IF "difficulty" \in meta.keys /\ meta.difficulty \notin EvDifficulties
                THEN <<EvIssue("INVALID", "difficulty")>> ELSE <<>>)
            \o (IF "model_hint" \in meta.keys /\ meta.model_hint \notin EvModels
                THEN <<EvIssue("INVALID", "model_hint")>> ELSE <<>>)
            \o RelatedIssues(meta)
            \o TagIssues(meta)
            \o (IF "last_reviewed" \in meta.keys /\ ~meta.last_reviewed.wellformed
                THEN <<EvIssue("INVALID", "last_reviewed")>> ELSE <<>>)

\* the warning validate_metadata appends to self.warnings for one file
ReviewWarnings(filename, cmd) ==
    IF /\ cmd.has_metadata
       /\ "last_reviewed" \in cmd.metadata.keys
       /\ cmd.metadata.last_reviewed.wellformed
       /\ cmd.metadata.last_reviewed.days_old > 90
    THEN <<[file |-> filename, days_old |-> cmd.metadata.last_reviewed.days_old]>>
    ELSE <<>>

NoIssues == [f \in Range(CommandFiles) |-> <<>>]

EvInit ==
    /\ \E rich \in Range(CommandFiles) : \E r \in RichDocs(rich) :
          \E has_fm \in BOOLEAN, n \in 0..MaxRelated :
              docs = [f \in Range(CommandFiles) |->
                         IF f = rich THEN r ELSE PlainDoc(f, has_fm, n)]
    /\ ev_pc = "new"
    /\ ev_commands = <<>>
    /\ ev_issues = NoIssues
    /\ ev_warnings = <<>>
    /\ cv_idx = 1
    /\ cv_errors = <<>>
    /\ cv_warnings = <<>>
    /\ cv_passed = 0
    /\ RcIdle
    /\ MvIdle
    /\ ExIdle
    /\ ScIdle
    /\ FxIdle
    /\ AcIdle
    /\ PlIdle
    /\ DxIdle
    /\ GmIdle
    /\ ElIdle

\* PlaybookEvolutionEngine.load_all_commands()
EvLoadAllCommands ==
    /\ ev_pc = "new"
    /\ ev_commands' = [f \in Range(CommandFiles) |-> LoadCommand(docs[f])]
    /\ ev_pc' = "loaded"
    /\ UNCHANGED <<docs, ev_issues, ev_warnings, cv_idx, cv_errors, cv_warnings, cv_passed>>
    /\ UNCHANGED nonEvVars

\* PlaybookEvolutionEngine.validate_metadata()
EvValidateMetadata ==
    /\ ev_pc = "loaded"
    /\ ev_issues' = [f \in Range(CommandFiles) |-> MetadataIssues(f, ev_commands[f])]
    /\ ev_warnings' = ev_warnings
                      \o Flatten([i \in 1..Len(CommandFiles) |->
                                    ReviewWarnings(CommandFiles[i],
                                                   ev_commands[CommandFiles[i]])])
    /\ ev_pc' = "validated"
    /\ UNCHANGED <<docs, ev_commands, cv_idx, cv_errors, cv_warnings, cv_passed>>
    /\ UNCHANGED nonEvVars

(* ---- ConventionValidator ---- *)
\* the loop of validate_related_commands over the lines from position i on
RECURSIVE CountLinks(_, _, _, _)
CountLinks(lines, i, in_section, link_count) ==
    IF i > Len(lines) THEN link_count
    ELSE IF lines[i] = "related_heading" THEN CountLinks(lines, i + 1, TRUE, link_count)
    ELSE IF in_section /\ lines[i] \in {"heading", "rule"} THEN link_count
    ELSE IF in_section /\ lines[i] = "link"
         THEN CountLinks(lines, i + 1, in_section, link_count + 1)
    ELSE CountLinks(lines, i + 1, in_section, link_count)

\* limit = HUB_RELATED_LIMIT if is_hub else RELATED_LIMIT
LimitOf(name) == IF name \in HUB_COMMANDS THEN HUB_RELATED_LIMIT ELSE RELATED_LIMIT

\* ConventionValidator.validate_related_commands(path, content), for the
\* files of run() in order
CvValidateRelatedCommands ==
    /\ cv_idx <= Len(CommandFiles)
    /\ LET name == CommandFiles[cv_idx]
           link_count == CountLinks(ContentLines(docs[name]), 1, FALSE, 0)
           limit == LimitOf(name)
           msg == [file |-> name, link_count |-> link_count, limit |-> limit]
       IN IF link_count = 0
          THEN /\ cv_warnings' = Append(cv_warnings, msg)
               /\ UNCHANGED <<cv_errors, cv_passed>>
          ELSE IF link_count <= limit
          THEN /\ cv_passed' = cv_passed + 1
               /\ UNCHANGED <<cv_errors, cv_warnings>>
          ELSE /\ cv_errors' = Append(cv_errors, msg)
               /\ UNCHANGED <<cv_warnings, cv_passed>>
    /\ cv_idx' = cv_idx + 1
    /\ UNCHANGED <<docs, ev_pc, ev_commands, ev_issues, ev_warnings>>
    /\ UNCHANGED nonEvVars

EvNext ==
    \/ EvLoadAllCommands
    \/ EvValidateMetadata
    \/ CvValidateRelatedCommands

SpecEvolve == EvInit /\ [][EvNext]_vars

(***************************************************************************)
(* Claims about the related-command limit.                                 *)
(***************************************************************************)
\* the limit the hub allow-list gives a document
AllowedRelated(f) == IF f \in HUB_COMMANDS THEN HUB_RELATED_LIMIT ELSE RELATED_LIMIT

\* the links listed between the Related Commands heading and the end of its
\* section
ListedLinks(lines) ==
    LET heads == {i \in 1..Len(lines) : lines[i] = "related_heading"}
    IN IF heads = {} THEN 0
       ELSE LET h == Min(heads)
                ends == {j \in (h + 1)..Len(lines) : lines[j] \in {"heading", "rule"}}
                e == IF ends = {} THEN Len(lines) + 1 ELSE Min(ends)
            IN Cardinality({k \in (h + 1)..(e - 1) : lines[k] = "link"})

\* C9: a document off the hub allow-list gets exactly one TOO_MANY error
\* when it lists more than 5 related commands and none when it lists 5 or
\* fewer; the hub document pb-patterns gets it only when it lists more than
\* 10.  Stated for both validators: validate_metadata over the front-matter
\* list, validate_related_commands over the Related Commands section.
C9_RelatedLimit ==
    /\ ev_pc = "validated" =>
          \A f \in Range(CommandFiles) :
              (/\ docs[f].has_fm
               /\ "related_commands" \in docs[f].meta.keys
               /\ docs[f].meta.related_commands.is_list)
              => Count(ev_issues[f], LAMBDA issue :
                          issue = EvIssue("TOO_MANY", "related_commands"))
                 = IF Len(docs[f].meta.related_commands.items) > AllowedRelated(f)
                   THEN 1 ELSE 0
    /\ \A i \in 1..(cv_idx - 1) :
          LET f == CommandFiles[i]
          IN Count(cv_errors, LAMBDA msg : msg.file = f)
             = IF ListedLinks(ContentLines(docs[f])) > AllowedRelated(f)
               THEN 1 ELSE 0

(***************************************************************************)
(* extract-playbook-metadata.py: PlaybookMetadataExtractor                 *)
(* A document text is given by what each pattern of the extractor finds    *)
(* in it.  Confidence scores are in hundredths.                            *)
(***************************************************************************)
ExPaths == {Path("core", "pb-a"), Path("core", "pb-b"), Path("planning", "pb-a")}

NoPath == Path("", "")

Text(first_line, title, purpose, tier, tier_marker, h2, related, next_steps, next_label, prerequisites, frequency, decision_context, sections) ==
    [first_line |-> first_line, title |-> title, purpose |-> purpose,
     tier |-> tier, tier_marker |-> tier_marker, h2 |-> h2,
     related |-> related, next_steps |-> next_steps, next_label |-> next_label,
     prerequisites |-> prerequisites, frequency |-> frequency,
     decision_context |-> decision_context, sections |-> sections,
     raises |-> ""]

NoText == Text("", "", "", <<>>, FALSE, FALSE, <<>>, <<>>, FALSE, <<>>, "", <<>>, <<>>)

\* an AI prompt template: its first line addresses the model
SkillText ==
    Text("You are", "", "", <<>>, FALSE, FALSE, <<Ref(1, "pb-b")>>, <<>>, FALSE,
         <<>>, "as-needed", <<>>, <<>>)

\* a heading and a paragraph, nothing else
PlainText ==
    Text("#", "T", "P", <<>>, FALSE, FALSE, <<>>, <<>>, FALSE, <<>>, "as-needed",
         <<>>, <<>>)

\* no level-1 heading and no paragraph after it
UntitledText ==
    Text("text", "", "", <<"L">>, FALSE, FALSE, <<>>, <<>>, FALSE, <<>>,
         "as-needed", <<>>, <<>>)

\* sections with references, one of them to no document
LinkedText ==
    Text("#", "T", "P", <<"S">>, TRUE, TRUE,
         <<Ref(1, "pb-a"), Ref(1, "pb-b"), Ref(1, "pb-ghost")>>,
         <<Ref(1, "pb-ghost"), Ref(1, "pb-b")>>, TRUE,
         <<Ref(1, "pb-a")>>, "daily", <<>>, <<"next-steps", "prerequisites">>)

\* a text on which one field extractor raises: "raises" names the extractor
RaisingText == [LinkedText EXCEPT !.raises = "_extract_tier"]

Texts == {SkillText, PlainText, UntitledText, LinkedText, RaisingText}

File(exists, readable, text) == [exists |-> exists, readable |-> readable, text |-> text]

\* a path holds no file, a file that cannot be read, or a text
FileStates ==
    {File(FALSE, FALSE, NoText), File(TRUE, FALSE, NoText)}
    \cup {File(TRUE, TRUE, t) : t \in Texts}

\* playbook_utils.is_skill_file(content)
is_skill_file(content) == content.first_line \in {"You are", "You will", "Lets", "You should"}

\* mutant: a file whose type cannot be determined is left out
ClassifyFile_SkipUnreadable(file) ==
    IF file.readable
    THEN (IF is_skill_file(file.text) THEN "skill" ELSE "regular")
    ELSE "skill"

\* the body of the loop of _discover_commands: an unreadable file defaults
\* to a regular command
ClassifyFile(file) ==
    IF file.readable
    THEN (IF is_skill_file(file.text) THEN "skill" ELSE "regular")
    ELSE "regular"

\* _discover_commands(): the regular commands, in sorted order
discover_commands(fs) ==
    SortedPaths({p \in ExPaths : fs[p].exists /\ ClassifyFile(fs[p]) = "regular"})

_extract_command_name(file_path) == file_path.name

_extract_category(file_path) == file_path.dir

ConfidenceFields ==
    <<"command", "title", "category", "purpose", "tier", "related_commands",
      "next_steps", "prerequisites", "frequency", "decision_context",
      "sections", "has_examples", "has_checklist">>

\* _calculate_confidence_scores(metadata, content)
_calculate_confidence_scores(metadata, content) ==
    [field \in Range(ConfidenceFields) |->
        CASE field = "command" -> IF metadata.command /= "" THEN 100 ELSE 0
          [] field = "title" -> IF metadata.title /= "" THEN 100 ELSE 0
          [] field = "category" -> IF metadata.category /= "" THEN 100 ELSE 0
          [] field = "purpose" -> IF metadata.purpose /= "" THEN 95 ELSE 0
          [] field = "tier" ->
                IF metadata.tier /= <<>>
                THEN (IF content.tier_marker THEN 95
                      ELSE IF content.h2 THEN 85 ELSE 75)
                ELSE 0
          [] field = "related_commands" ->
                IF metadata.related_commands /= <<>> THEN 95 ELSE 0
          [] field = "next_steps" ->
                IF metadata.next_steps /= <<>>
                THEN (IF content.next_label THEN 90 ELSE 80)
                ELSE 0
          [] field = "prerequisites" -> IF metadata.prerequisites /= <<>> THEN 85 ELSE 0
          [] field = "frequency" -> IF metadata.frequency /= "as-needed" THEN 85 ELSE 60
          [] field = "decision_context" ->
                IF metadata.decision_context /= <<>> THEN 70 ELSE 0
          [] field = "sections" -> IF metadata.sections /= <<>> THEN 100 ELSE 0
          [] field = "has_examples" -> 100
          [] field = "has_checklist" -> 100]

RECURSIVE SumOver(_, _)
SumOver(scores, fields) ==
    IF fields = {} THEN 0
    ELSE LET f == CHOOSE x \in fields : TRUE
         IN scores[f] + SumOver(scores, fields \ {f})

OptionalFields == {"next_steps", "prerequisites", "decision_context"}

\* a float that is a quotient of integers: sum (in hundredths) over count
Quotient(sum, count) == [sum |-> sum, count |-> count]

\* mutant: the optional fields are summed but never counted
average_optional_uncounted(scores) ==
    LET counted == DOMAIN scores \ OptionalFields
    IN IF counted = {} THEN Quotient(0, 1)
       ELSE Quotient(SumOver(scores, DOMAIN scores), Cardinality(counted))

\* mutant: the plain mean of all scores
average_plain_mean(scores) ==
    IF DOMAIN scores = {} THEN Quotient(0, 1)
    ELSE Quotient(SumOver(scores, DOMAIN scores), Cardinality(DOMAIN scores))

\* _calculate_average_confidence(scores): 0.0 for an empty mapping or when
\* nothing is relevant, else sum(relevant_scores) / len(relevant_scores)
_calculate_average_confidence(scores) ==
    LET relevant == {field \in DOMAIN scores :
                        field \notin OptionalFields \/ scores[field] > 0}
    IN IF DOMAIN scores = {} THEN Quotient(0, 1)
       ELSE IF relevant = {} THEN Quotient(0, 1)
       ELSE Quotient(SumOver(scores, relevant), Cardinality(relevant))

\* the record _extract_command_metadata builds from a file that was read
CommandMetadata(file_path, content, now) ==
    LET metadata ==
            [command |-> _extract_command_name(file_path),
             category |-> _extract_category(file_path),
             title |-> content.title,
             purpose |-> content.purpose,
             tier |-> content.tier,
             related_commands |-> content.related,
             next_steps |-> content.next_steps,
             prerequisites |-> content.prerequisites,
             frequency |-> content.frequency,
             decision_context |-> content.decision_context,
             sections |-> content.sections,
             source_file |-> file_path,
             extraction_date |-> now]
        scores == _calculate_confidence_scores(metadata, content)
    IN [command |-> metadata.command, category |-> metadata.category,
        title |-> metadata.title, purpose |-> metadata.purpose,
        tier |-> metadata.tier, related_commands |-> metadata.related_commands,
        next_steps |-> metadata.next_steps, prerequisites |-> metadata.prerequisites,
        frequency |-> metadata.frequency,
        decision_context |-> metadata.decision_context,
        sections |-> metadata.sections, source_file |-> metadata.source_file,
        extraction_date |-> metadata.extraction_date,
        confidence_scores |-> scores,
        average_confidence |-> _calculate_average_confidence(scores)]

\* self.metadata[command] = metadata, on a dict kept in insertion order
DictSet(dict, key, value) ==
    IF \E i \in 1..Len(dict) : dict[i].name = key
    THEN [i \in 1..Len(dict) |-> IF dict[i].name = key THEN Entry(key, value) ELSE dict[i]]
    ELSE Append(dict, Entry(key, value))

\* an entry of self.errors or self.warnings; the keys it lacks are empty
ExIssue(file, command, field, issue, severity) ==
    [file |-> file, command |-> command, field |-> field, issue |-> issue,
     severity |-> severity]

\* a call of _extract_command_metadata's dict literal raises: none of the
\* calls is guarded, so the exception leaves _extract_command_metadata
ExtractorRaises(content) == content.raises /= ""

\* the loop of extract_all over the files from position i on: the metadata
\* and the errors it leaves
RECURSIVE ExtractLoop(_, _, _, _, _, _)
ExtractLoop(fs, command_files, i, metadata, errors, now) ==
    IF i > Len(command_files) THEN [metadata |-> metadata, errors |-> errors]
    ELSE LET file_path == command_files[i]
         IN IF ~fs[file_path].readable
            THEN ExtractLoop(fs, command_files, i + 1, metadata,
                             Append(errors,
                                    ExIssue(file_path, "", "", "read failed", "error")),
                             now)
            ELSE IF ExtractorRaises(fs[file_path].text)
            THEN ExtractLoop(fs, command_files, i + 1, metadata,
                             Append(errors,
                                    ExIssue(file_path, "", "", "extractor raised", "error")),
                             now)
            ELSE ExtractLoop(fs, command_files, i + 1,
                             DictSet(metadata, _extract_command_name(file_path),
                                     CommandMetadata(file_path, fs[file_path].text, now)),
                             errors, now)

\* the errors _validate_command_metadata appends
ExCommandErrors(command, metadata) ==
    LET missing == SelectSeq(<<"command", "title", "category", "purpose">>,
                             LAMBDA field : metadata[field] = "")
        low == SelectSeq(ConfidenceFields, LAMBDA field :
                   /\ field \in {"command", "title", "category"}
                   /\ metadata.confidence_scores[field] < 100)
    IN [i \in 1..Len(missing) |->
            ExIssue(NoPath, command, missing[i], "Required field missing", "error")]
       \o [i \in 1..Len(low) |->
            ExIssue(NoPath, command, low[i], "Critical field has low confidence", "error")]

\* the warnings _validate_command_metadata appends
ExCommandWarnings(command, metadata, valid_commands) ==
    LET related == SelectSeq(metadata.related_commands, LAMBDA cmd_ref :
                       lstrip(cmd_ref) \notin valid_commands /\ lstrip(cmd_ref) /= command)
        next == SelectSeq(metadata.next_steps, LAMBDA cmd_ref :
                       lstrip(cmd_ref) \notin valid_commands)
        low == SelectSeq(ConfidenceFields, LAMBDA field :
                   /\ field \notin {"command", "title", "category"}
                   /\ metadata.confidence_scores[field] < 70
                   /\ metadata.confidence_scores[field] > 0)
    IN [i \in 1..Len(related) |->
            ExIssue(NoPath, command, "related_commands", "Referenced command not found", "warning")]
       \o [i \in 1..Len(next) |->
            ExIssue(NoPath, command, "next_steps", "Referenced command not found", "warning")]
       \o [i \in 1..Len(low) |->
            ExIssue(NoPath, command, low[i], "Low confidence score", "warning")]

\* mutant: the count of a category is set when the category is first seen
\* and not raised afterwards
RECURSIVE group_count_first_only(_, _, _)
group_count_first_only(metadata, i, categories) ==
    IF i > Len(metadata) THEN categories
    ELSE LET category == metadata[i].meta.category
             command == metadata[i].name
         IN group_count_first_only(metadata, i + 1,
                IF \E k \in 1..Len(categories) : categories[k].category = category
                THEN [k \in 1..Len(categories) |->
                        IF categories[k].category = category
                        THEN [categories[k] EXCEPT !.commands = Append(@, command)]
                        ELSE categories[k]]
                ELSE Append(categories, [category |-> category, count |-> 1,
                                         commands |-> <<command>>]))

\* the categories of _build_complete_metadata, in order of first appearance
RECURSIVE GroupByCategory(_, _, _)
GroupByCategory(metadata, i, categories) ==
    IF i > Len(metadata) THEN categories
    ELSE LET category == metadata[i].meta.category
             command == metadata[i].name
         IN GroupByCategory(metadata, i + 1,
                IF \E k \in 1..Len(categories) : categories[k].category = category
                THEN [k \in 1..Len(categories) |->
                        IF categories[k].category = category
                        THEN [categories[k] EXCEPT !.count = @ + 1,
                                                   !.commands = Append(@, command)]
                        ELSE categories[k]]
                ELSE Append(categories, [category |-> category, count |-> 1,
                                         commands |-> <<command>>]))

\* what extract_all returns: {} or the complete metadata structure
CompleteMetadata(assembled, commands, categories, warnings, errors) ==
    [assembled |-> assembled,
     total_commands |-> Len(commands),
     commands |-> commands,
     categories |-> categories,
     extraction_success |-> Len(SelectSeq(commands, LAMBDA e : e.meta.command /= "")),
     warnings |-> warnings,
     errors |-> errors]

EmptyDict == CompleteMetadata(FALSE, <<>>, <<>>, <<>>, <<>>)

\* _build_complete_metadata()
_build_complete_metadata(metadata, warnings, errors) ==
    CompleteMetadata(TRUE, metadata, GroupByCategory(metadata, 1, <<>>), warnings, errors)

ExInit ==
    /\ ex_fs \in [ExPaths -> FileStates]
    /\ ex_pc = "new"
    /\ ex_valid_commands = {}
    /\ ex_metadata = <<>>
    /\ ex_warnings = <<>>
    /\ ex_errors = <<>>
    /\ ex_complete = EmptyDict
    /\ ex_result = EmptyDict
    /\ ex_saved = EmptyDict
    /\ ex_base = 0
    /\ ex_runs = 0
    /\ ex_clock = 0
    /\ ex_prev = <<>>
    /\ RcIdle
    /\ MvIdle
    /\ EvIdle
    /\ ScIdle
    /\ FxIdle
    /\ AcIdle
    /\ PlIdle
    /\ DxIdle
    /\ GmIdle
    /\ ElIdle

\* PlaybookMetadataExtractor.extract_all()
ExExtractAll ==
    /\ ex_pc \in {"new", "extracted"}
    /\ ex_runs < MaxExtractRuns
    /\ \E now \in {ex_clock, ex_clock + 1} :
       LET command_files == discover_commands(ex_fs)
       IN /\ ex_clock' = now
          /\ IF command_files = <<>>
             THEN /\ ex_result' = EmptyDict
                  /\ UNCHANGED <<ex_valid_commands, ex_metadata, ex_warnings,
                                 ex_errors, ex_complete>>
             ELSE LET valid_commands ==
                          {_extract_command_name(f) : f \in Range(command_files)}
                      looped == ExtractLoop(ex_fs, command_files, 1, ex_metadata,
                                            ex_errors, now)
                      metadata == looped.metadata
                      errors == looped.errors
                                 \o Flatten([i \in 1..Len(metadata) |->
                                               ExCommandErrors(metadata[i].name,
                                                               metadata[i].meta)])
                      warnings == ex_warnings
                                  \o Flatten([i \in 1..Len(metadata) |->
                                               ExCommandWarnings(metadata[i].name,
                                                                 metadata[i].meta,
                                                                 valid_commands)])
                      complete == _build_complete_metadata(metadata, warnings, errors)
                  IN /\ ex_valid_commands' = valid_commands
                     /\ ex_metadata' = metadata
                     /\ ex_errors' = errors
                     /\ ex_warnings' = warnings
                     /\ ex_complete' = complete
                     /\ ex_result' = complete
    /\ ex_base' = Len(ex_errors)
    /\ ex_pc' = "extracted"
    /\ ex_runs' = ex_runs + 1
    /\ ex_prev' = IF ex_result.assembled THEN ex_result.commands ELSE ex_prev
    /\ UNCHANGED <<ex_fs, ex_saved>>
    /\ UNCHANGED nonExVars

\* save_metadata(output_path): the complete structure, or self.metadata when
\* there is none
ExSaveMetadata ==
    /\ ex_pc = "extracted"
    /\ ex_saved' = IF ex_complete.assembled
                   THEN ex_complete
                   ELSE CompleteMetadata(FALSE, ex_metadata, <<>>, <<>>, <<>>)
    /\ ex_pc' = "saved"
    /\ UNCHANGED <<ex_fs, ex_valid_commands, ex_metadata, ex_warnings, ex_errors,
                   ex_complete, ex_result, ex_base, ex_runs, ex_clock, ex_prev>>
    /\ UNCHANGED nonExVars

\* PlaybookMetadataExtractor(...): main() of the next process
ExNewExtractor ==
    /\ ex_pc = "saved"
    /\ ex_pc' = "new"
    /\ ex_valid_commands' = {}
    /\ ex_metadata' = <<>>
    /\ ex_warnings' = <<>>
    /\ ex_errors' = <<>>
    /\ ex_complete' = EmptyDict
    /\ ex_result' = EmptyDict
    /\ ex_base' = 0
    /\ ex_prev' = IF ex_result.assembled THEN ex_result.commands ELSE ex_prev
    /\ UNCHANGED <<ex_fs, ex_saved, ex_runs, ex_clock>>
    /\ UNCHANGED nonExVars

ExNext ==
    \/ ExExtractAll
    \/ ExSaveMetadata
    \/ ExNewExtractor

SpecExtract == ExInit /\ [][ExNext]_vars

(***************************************************************************)
(* Claims about extract_all.                                               *)
(***************************************************************************)
\* extract_all has returned and nothing was done since
ExtractDone == ex_pc = "extracted"

\* the files whose reading fails
FailedFiles == {p \in ExPaths : ex_fs[p].exists /\ ~ex_fs[p].readable}

\* the readable command documents (skill documents are no commands)
ReadableCommands ==
    {p \in ExPaths : /\ ex_fs[p].exists
                     /\ ex_fs[p].readable
                     /\ ~is_skill_file(ex_fs[p].text)
                     /\ ~ExtractorRaises(ex_fs[p].text)}

\* the readable command documents on which a field extractor raises
RaisingCommands ==
    {p \in ExPaths : /\ ex_fs[p].exists
                     /\ ex_fs[p].readable
                     /\ ~is_skill_file(ex_fs[p].text)
                     /\ ExtractorRaises(ex_fs[p].text)}

\* the errors the last extract_all call appended
NewErrors == SubSeq(ex_errors, ex_base + 1, Len(ex_errors))

\* C10: when reading a document fails during extract_all, the run still
\* returns the assembled output, with a metadata record under the name of
\* every readable command document (the record of that very file when no
\* other readable document bears its name), and it records exactly one
\* error entry for each file that failed.
C10_UnreadableDoesNotAbort ==
    (ExtractDone /\ FailedFiles /= {}) =>
        /\ ex_result.assembled
        /\ \A p \in ReadableCommands :
              \E i \in 1..Len(ex_result.commands) :
                  /\ ex_result.commands[i].name = p.name
                  /\ (\A q \in ReadableCommands : q.name = p.name => q = p)
                        => /\ ex_result.commands[i].meta.source_file = p
                           /\ ex_result.commands[i].meta.category = p.dir
                           /\ ex_result.commands[i].meta.title = ex_fs[p].text.title
        /\ \A p \in FailedFiles :
              /\ Count(NewErrors, LAMBDA e : e.file = p) = 1
              /\ Count(ex_result.errors, LAMBDA e : e.file = p) >= 1
        /\ \A i \in 1..Len(NewErrors) :
              NewErrors[i].file /= NoPath
                  => NewErrors[i].file \in FailedFiles \cup RaisingCommands

\* one file could not be read, two others were, and both got their record
C10_Witness ==
    /\ ExtractDone
    /\ Cardinality(FailedFiles) = 1
    /\ Cardinality(ReadableCommands) = 2
    /\ ex_result.assembled
    /\ ex_result.total_commands = 2
    /\ Count(ex_result.errors, LAMBDA e : e.file \in FailedFiles) = 1

C12_NameOrder ==
    \A i, j \in 1..Len(rc_conflicts) :
        i < j => NameRank(rc_conflicts[i].path.name) < NameRank(rc_conflicts[j].path.name)

(***************************************************************************)
(* Claims about the extracted records.                                     *)
(***************************************************************************)
\* C13: extracting one unchanged document twice (same text, same path)
\* gives two identical metadata records, every stored field included, with
\* identical confidence scores.
C13_ExtractionDeterministic ==
    (ExtractDone /\ ex_runs >= 2) =>
        \A i \in 1..Len(ex_result.commands) : \A j \in 1..Len(ex_prev) :
            (/\ ex_result.commands[i].name = ex_prev[j].name
             /\ ex_result.commands[i].meta.source_file = ex_prev[j].meta.source_file)
            => ex_result.commands[i].meta = ex_prev[j].meta

(***************************************************************************)
(* extract-playbook-metadata.py: the confidence scorer on its own,         *)
(* _calculate_confidence_scores and _calculate_average_confidence          *)
(***************************************************************************)
\* a metadata record as the scorer reads it: which fields hold a value
ScMetadata(command, title, category, purpose, tier, related, next, prereq, frequency, decision, sections) ==
    [command |-> IF command THEN "pb-a" ELSE "",
     title |-> IF title THEN "T" ELSE "",
     category |-> IF category THEN "core" ELSE "",
     purpose |-> IF purpose THEN "P" ELSE "",
     tier |-> IF tier THEN <<"S">> ELSE <<>>,
     related_commands |-> IF related THEN <<Ref(1, "pb-b")>> ELSE <<>>,
     next_steps |-> IF next THEN <<Ref(1, "pb-b")>> ELSE <<>>,
     prerequisites |-> IF prereq THEN <<Ref(1, "pb-b")>> ELSE <<>>,
     frequency |-> frequency,
     decision_context |-> IF decision THEN <<"cond">> ELSE <<>>,
     sections |-> IF sections THEN <<"when-to-use">> ELSE <<>>]

ScMetadatas ==
    {ScMetadata(b[1], b[2], b[3], b[4], b[5], b[6], b[7], b[8], fr, b[9], b[10]) :
        b \in [1..10 -> BOOLEAN], fr \in {"as-needed", "daily", ""}}

\* what the scorer looks for in the text: "Tier:", "##", "Next Steps"
ScContent(tier_marker, h2, next_label) ==
    [NoText EXCEPT !.tier_marker = tier_marker, !.h2 = h2, !.next_label = next_label]

ScContents == {ScContent(a, b, c) : a \in BOOLEAN, b \in BOOLEAN, c \in BOOLEAN}

\* score mappings that did not come from the scorer, the empty one included
ScMappingFields == {"title", "purpose", "next_steps", "prerequisites"}

ScMappings ==
    UNION {[S -> {0, 60, 100}] : S \in SUBSET ScMappingFields}

ScInit ==
    /\ \/ /\ sc_metadata \in ScMetadatas
          /\ sc_content \in ScContents
          /\ sc_scores = <<>>
          /\ sc_pc = "given"
       \/ /\ sc_metadata = ScMetadata(TRUE, TRUE, TRUE, TRUE, FALSE, FALSE, FALSE, FALSE, "as-needed", FALSE, FALSE)
          /\ sc_content = NoText
          /\ sc_scores \in ScMappings
          /\ sc_pc = "mapping"
    /\ sc_average = Quotient(0, 1)
    /\ RcIdle
    /\ MvIdle
    /\ EvIdle
    /\ ExIdle
    /\ FxIdle
    /\ AcIdle
    /\ PlIdle
    /\ DxIdle
    /\ GmIdle
    /\ ElIdle

\* metadata["confidence_scores"] = self._calculate_confidence_scores(metadata, content)
ScCalculateScores ==
    /\ sc_pc = "given"
    /\ sc_scores' = _calculate_confidence_scores(sc_metadata, sc_content)
    /\ sc_pc' = "scored"
    /\ UNCHANGED <<sc_metadata, sc_content, sc_average>>
    /\ UNCHANGED nonScVars

\* metadata["average_confidence"] = self._calculate_average_confidence(scores)
ScCalculateAverage ==
    /\ sc_pc \in {"scored", "mapping"}
    /\ sc_average' = _calculate_average_confidence(sc_scores)
    /\ sc_pc' = IF sc_pc = "scored" THEN "scored_averaged" ELSE "mapping_averaged"
    /\ UNCHANGED <<sc_metadata, sc_content, sc_scores>>
    /\ UNCHANGED nonScVars

ScNext ==
    \/ ScCalculateScores
    \/ ScCalculateAverage

SpecScore == ScInit /\ [][ScNext]_vars

(***************************************************************************)
(* Claims about the confidence scores.                                     *)
(***************************************************************************)
Averaged == sc_pc \in {"scored_averaged", "mapping_averaged"}

\* C14: every score the scorer produces lies in [0.0, 1.0], and the average
\* lies in [0.0, 1.0], also when every score is 0 or the mapping is empty.
C14_ConfidenceBounds ==
    /\ sc_pc \in {"scored", "scored_averaged"} =>
          \A field \in DOMAIN sc_scores : 0 <= sc_scores[field] /\ sc_scores[field] <= 100
    /\ Averaged =>
          /\ sc_average.count > 0
          /\ 0 <= sc_average.sum
          /\ sc_average.sum <= 100 * sc_average.count

\* the scorer's mapping of a record with every optional field found was
\* averaged
C14_Witness ==
    /\ sc_pc = "scored_averaged"
    /\ \A field \in OptionalFields : sc_scores[field] > 0
    /\ sc_scores["purpose"] = 0
    /\ sc_average.sum > 0

\* the fields _calculate_average_confidence must keep
KeptFields(scores) ==
    {field \in DOMAIN scores : ~(field \in OptionalFields /\ scores[field] = 0)}

QuotientEq(a, b) == a.sum * b.count = b.sum * a.count

QuotientLess(a, b) == a.sum * b.count < b.sum * a.count

\* the mapping with one more field, of score 0
WithZero(scores, field) ==
    [f \in DOMAIN scores \cup {field} |-> IF f = field THEN 0 ELSE scores[f]]

\* the mapping without a field
Without(scores, field) == [f \in DOMAIN scores \ {field} |-> scores[f]]

\* C15: the average is the mean of the scores left after removing exactly
\* the optional fields (next_steps, prerequisites, decision_context) of
\* score 0; adding or removing an absent optional field does not change
\* it, and a 0 score of any other field lowers a positive average.
C15_AverageExcludesAbsentOptional ==
    Averaged =>
        /\ LET kept == KeptFields(sc_scores)
           IN IF kept = {}
              THEN sc_average.sum = 0
              ELSE QuotientEq(sc_average,
                              Quotient(SumOver(sc_scores, kept), Cardinality(kept)))
        /\ \A field \in OptionalFields :
              /\ field \notin DOMAIN sc_scores
                    => QuotientEq(_calculate_average_confidence(WithZero(sc_scores, field)),
                                  sc_average)
              /\ (field \in DOMAIN sc_scores /\ sc_scores[field] = 0)
                    => QuotientEq(_calculate_average_confidence(Without(sc_scores, field)),
                                  sc_average)
        /\ \A field \in DOMAIN sc_scores \ OptionalFields :
              sc_scores[field] = 0
                 => LET rest == _calculate_average_confidence(Without(sc_scores, field))
                    IN IF rest.sum > 0
                       THEN QuotientLess(sc_average, rest)
                       ELSE QuotientEq(sc_average, rest)

\* a mapping with an absent optional field and a 0 score of another field
C15_Witness ==
    /\ sc_pc = "mapping_averaged"
    /\ DOMAIN sc_scores = {"title", "purpose", "next_steps"}
    /\ sc_scores["next_steps"] = 0
    /\ sc_scores["purpose"] = 0
    /\ sc_scores["title"] = 100
    /\ QuotientEq(sc_average, Quotient(50, 1))

(***************************************************************************)
(* extract-playbook-metadata.py: the field extractors on their own.        *)
(* A text is given by the parts the patterns of an extractor can match.    *)
(***************************************************************************)
Tiers == <<"XS", "S", "M", "L">>

\* key=lambda x: {"XS": 0, "S": 1, "M": 2, "L": 3}[x]
TierRank(t) == CHOOSE i \in 1..Len(Tiers) : Tiers[i] = t

\* sorted(list(tiers), key=...)
SortTiers(tiers) == SelectSeq(Tiers, LAMBDA t : t \in tiers)

\* a text for the tier extractor: the list after "Tier:" (empty: no marker),
\* the bolded first cells of its table rows, and its complexity keywords
TierText(marker, rows, keywords) ==
    [kind |-> "tier", marker |-> marker, rows |-> rows, keywords |-> keywords]

TierTexts ==
    {TierText(m, r, k) : m \in SeqsUpTo(Range(Tiers), MaxTierList),
                         r \in SeqsUpTo(Range(Tiers), MaxTierRows),
                         k \in SUBSET {"simple", "medium", "complex"}}

\* what ([XS]|M|[L]?) captures at a tier name: one character
CaptureTier(t) == IF t = "XS" THEN "X" ELSE t

\* the second group of the Tier: pattern, (?:\s*,\s*([XS]|M|[L]?))*, over
\* the list items from position i on: the repetition ends behind the X of
\* an XS, and the group keeps what its last repetition captured
RECURSIVE LastCapture(_, _, _)
LastCapture(marker, i, captured) ==
    IF i > Len(marker) THEN captured
    ELSE IF marker[i] = "XS" THEN "X"
    ELSE LastCapture(marker, i + 1, marker[i])

\* re.findall(r"[Tt]ier:\s*\[?([XS]|M|[L]?)(?:\s*,\s*([XS]|M|[L]?))*\]?", ...):
\* the two groups of the one match
MarkerGroups(marker) ==
    IF marker = <<>> THEN {}
    ELSE IF marker[1] = "XS" THEN {"X", ""}
    ELSE {marker[1], LastCapture(marker, 2, "")}

\* re.findall(r"\|\s*\*\*([XS]|M|L)\*\*\s*\|", content): a cell **XS** holds
\* two characters and does not match
RowTiers(rows) == {rows[i] : i \in {j \in 1..Len(rows) : rows[j] /= "XS"}}

\* the complexity keywords
KeywordTiers(keywords) ==
    {t \in Range(Tiers) : \/ t = "XS" /\ "simple" \in keywords
                          \/ t = "M" /\ "medium" \in keywords
                          \/ t = "L" /\ "complex" \in keywords}

\* mutant: the tiers come out in descending order
extract_tier_descending(content) ==
    LET tiers == (MarkerGroups(content.marker) \cap Range(Tiers))
                 \cup (RowTiers(content.rows) \cap Range(Tiers))
                 \cup KeywordTiers(content.keywords)
        ascending == SortTiers(tiers)
    IN [i \in 1..Len(ascending) |-> ascending[Len(ascending) + 1 - i]]

\* _extract_tier(content); <<>> stands for None
_extract_tier(content) ==
    LET tiers == (MarkerGroups(content.marker) \cap Range(Tiers))
                 \cup (RowTiers(content.rows) \cap Range(Tiers))
                 \cup KeywordTiers(content.keywords)
    IN SortTiers(tiers)

(* ---- next_steps and prerequisites ---- *)
SectionLine(kind, level, name, ref) ==
    [kind |-> kind, level |-> level, name |-> name, ref |-> ref]

\* a line of "#" marks, a blank and a name
Heading(level, name) == SectionLine("heading", level, name, NoRef)

\* a line that holds one /pb-* reference
RefLine(ref) == SectionLine("ref", 0, "", ref)

\* a line without a reference and without "##"
Prose == SectionLine("text", 0, "", NoRef)

SectionLines ==
    {Heading(2, "Next Steps"), Heading(2, "Workflow"), Heading(2, "Prerequisites"),
     Heading(2, "Other"), Heading(3, "Other"),
     RefLine(Ref(1, "pb-a")), RefLine(Ref(1, "pb-b")), Prose}

SectionText(lines) == [kind |-> "sections", lines |-> lines]

SectionTexts == {SectionText(l) : l \in SeqsUpTo(SectionLines, MaxSectionLines)}

NextStepsNames == {"Next Steps", "Then", "Workflow", "After"}

PrerequisitesNames == {"Prerequisites", "Before", "Pre-Start"}

\* "##" occurs in the line: a heading of level 2 or deeper
HasTwoHashes(line) == line.kind = "heading" /\ line.level >= 2

\* re.search(r"##\s+(?:<names>)\s*\n(.*?)(?=##|\Z)", content): the lines of
\* group 1, from behind the first heading of one of the names up to the
\* next "##"; found is FALSE when nothing matches
SectionMatch(lines, names) ==
    LET heads == {i \in 1..Len(lines) : HasTwoHashes(lines[i]) /\ lines[i].name \in names}
    IN IF heads = {} THEN [found |-> FALSE, text |-> <<>>]
       ELSE LET h == Min(heads)
                stops == {j \in (h + 1)..Len(lines) : HasTwoHashes(lines[j])}
                e == IF stops = {} THEN Len(lines) + 1 ELSE Min(stops)
            IN [found |-> TRUE, text |-> SubSeq(lines, h + 1, e - 1)]

\* re.findall(r"/pb-[\w-]+", section_text)
FindRefs(section_text) ==
    LET hits == SelectSeq(section_text, LAMBDA line : line.kind = "ref")
    IN [i \in 1..Len(hits) |-> hits[i].ref]

\* mutant: duplicates are kept
unique_keeps_all(commands) == commands

\* the loop with seen: duplicates removed, the order of first occurrence kept
RECURSIVE unique_commands(_)
unique_commands(commands) ==
    IF commands = <<>> THEN <<>>
    ELSE LET init == unique_commands(SubSeq(commands, 1, Len(commands) - 1))
             cmd == commands[Len(commands)]
         IN IF cmd \in Range(init) THEN init ELSE Append(init, cmd)

\* _extract_next_steps(content); <<>> stands for None
_extract_next_steps(content) ==
    LET match == SectionMatch(content.lines, NextStepsNames)
    IN IF ~match.found THEN <<>> ELSE unique_commands(FindRefs(match.text))

\* _extract_prerequisites(content); <<>> stands for None
_extract_prerequisites(content) ==
    LET match == SectionMatch(content.lines, PrerequisitesNames)
    IN IF ~match.found THEN <<>> ELSE unique_commands(FindRefs(match.text))

FxInit ==
    /\ fx_text \in TierTexts \cup SectionTexts
    /\ fx_field = "none"
    /\ fx_result = <<>>
    /\ RcIdle
    /\ MvIdle
    /\ EvIdle
    /\ ExIdle
    /\ ScIdle
    /\ AcIdle
    /\ PlIdle
    /\ DxIdle
    /\ GmIdle
    /\ ElIdle

\* "tier": self._extract_tier(content)
FxExtractTier ==
    /\ fx_field = "none"
    /\ fx_text.kind = "tier"
    /\ fx_result' = _extract_tier(fx_text)
    /\ fx_field' = "tier"
    /\ UNCHANGED fx_text
    /\ UNCHANGED nonFxVars

\* "next_steps": self._extract_next_steps(content)
FxExtractNextSteps ==
    /\ fx_field = "none"
    /\ fx_text.kind = "sections"
    /\ fx_result' = _extract_next_steps(fx_text)
    /\ fx_field' = "next_steps"
    /\ UNCHANGED fx_text
    /\ UNCHANGED nonFxVars

\* "prerequisites": self._extract_prerequisites(content)
FxExtractPrerequisites ==
    /\ fx_field = "none"
    /\ fx_text.kind = "sections"
    /\ fx_result' = _extract_prerequisites(fx_text)
    /\ fx_field' = "prerequisites"
    /\ UNCHANGED fx_text
    /\ UNCHANGED nonFxVars

FxNext ==
    \/ FxExtractTier
    \/ FxExtractNextSteps
    \/ FxExtractPrerequisites

SpecFields == FxInit /\ [][FxNext]_vars

(***************************************************************************)
(* Claims about the field extractors.                                      *)
(***************************************************************************)
\* C16: the tier extractor returns the union, sorted XS < S < M < L, of the
\* tiers named in the Tier: marker, the tiers found as bolded table cells
\* and the tiers implied by complexity keywords; it is absent only if none
\* of the three is there.  (Tier: [XS, M] with "complex" gives [XS, M, L].)
C16_TierIsSortedUnion ==
    fx_field = "tier" =>
        LET named == Range(fx_text.marker) \cup Range(fx_text.rows)
                     \cup KeywordTiers(fx_text.keywords)
        IN /\ Range(fx_result) = named
           /\ Len(fx_result) = Cardinality(named)
           /\ \A i, j \in 1..Len(fx_result) :
                 i < j => TierRank(fx_result[i]) < TierRank(fx_result[j])

\* the body of the first level-2 section of one of the names: the lines up
\* to the next heading of level 2
SectionBody(lines, names) ==
    LET heads == {i \in 1..Len(lines) :
                     /\ lines[i].kind = "heading"
                     /\ lines[i].level = 2
                     /\ lines[i].name \in names}
    IN IF heads = {} THEN <<>>
       ELSE LET h == Min(heads)
                stops == {j \in (h + 1)..Len(lines) :
                             lines[j].kind = "heading" /\ lines[j].level <= 2}
                e == IF stops = {} THEN Len(lines) + 1 ELSE Min(stops)
            IN SubSeq(lines, h + 1, e - 1)

\* result is the distinct references of body, in order of first occurrence
IsFirstOccurrenceOrder(result, body) ==
    LET refs == FindRefs(body)
        first(r) == Min({i \in 1..Len(refs) : refs[i] = r})
    IN /\ Range(result) = Range(refs)
       /\ Len(result) = Cardinality(Range(refs))
       /\ \A i, j \in 1..Len(result) : i < j => first(result[i]) < first(result[j])

\* C17: next_steps (and likewise prerequisites) is exactly the sequence of
\* distinct references inside the body of the matching named section, in
\* order of first occurrence; references outside the section never appear,
\* and it is absent when the section is missing or holds no reference.
C17_SectionReferencesInOrder ==
    /\ fx_field = "next_steps" =>
          IsFirstOccurrenceOrder(fx_result, SectionBody(fx_text.lines, NextStepsNames))
    /\ fx_field = "prerequisites" =>
          IsFirstOccurrenceOrder(fx_result, SectionBody(fx_text.lines, PrerequisitesNames))

(***************************************************************************)
(* analyze-playbook-context.py: PlaybookContextAnalyzer.                   *)
(* Confidences are in hundredths.                                          *)
(***************************************************************************)
Phases == {"START", "DEVELOP", "FINALIZE", "REVIEW", "RELEASE"}

Branches == {"main", "master", "feature/test"}

\* a changed file: its path and the tests of _identify_changed_file_types
\* that the path passes ("test": holds "test" or "spec"; "docs": holds
\* "docs/" or ".md"; "ci": holds ".github/workflows"; "source": ends in a
\* source extension; "config": ends in a configuration file name)
ChangedFile(path, marks) == [path |-> path, marks |-> marks]

ChangedFiles ==
    {ChangedFile("tests/test_app.py", {"test", "source"}),
     ChangedFile("docs/guide.md", {"docs"}),
     ChangedFile(".github/workflows/ci.yml", {"ci"}),
     ChangedFile("src/app.py", {"source"}),
     ChangedFile("Dockerfile", {"config"}),
     ChangedFile("notes.txt", {})}

GitState(branch, commit_count, changed_files, unstaged, staged) ==
    [branch |-> branch, commit_count |-> commit_count, changed_files |-> changed_files,
     unstaged_changes |-> unstaged, staged_changes |-> staged]

GitStates ==
    {GitState(b, c, f, u, s) : b \in Branches, c \in 0..MaxCommits,
                               f \in SUBSET ChangedFiles, u \in BOOLEAN, s \in BOOLEAN}

\* mutant: master is not a release branch
detect_phase_main_only(git_state) ==
    IF git_state.branch = "main" THEN "RELEASE"
    ELSE IF git_state.commit_count = 0 /\ ~git_state.unstaged_changes /\ ~git_state.staged_changes
         THEN "START"
    ELSE IF /\ 0 < git_state.commit_count
            /\ git_state.commit_count < 5
            /\ (git_state.unstaged_changes \/ git_state.staged_changes \/ git_state.changed_files /= {})
         THEN "DEVELOP"
    ELSE IF \/ git_state.commit_count >= 5
            \/ (~git_state.unstaged_changes /\ ~git_state.staged_changes /\ git_state.commit_count > 0)
         THEN "FINALIZE"
    ELSE "DEVELOP"

\* _detect_workflow_phase(git_state)
_detect_workflow_phase(git_state) ==
    LET branch == git_state.branch
        commit_count == git_state.commit_count
        changed_files == git_state.changed_files
        unstaged == git_state.unstaged_changes
        staged == git_state.staged_changes
    IN IF branch = "main" \/ branch = "master" THEN "RELEASE"
       ELSE IF commit_count = 0 /\ ~unstaged /\ ~staged THEN "START"
       ELSE IF 0 < commit_count /\ commit_count < 5 /\ (unstaged \/ staged \/ changed_files /= {})
            THEN "DEVELOP"
       ELSE IF commit_count >= 5 \/ (~unstaged /\ ~staged /\ commit_count > 0) THEN "FINALIZE"
       ELSE "DEVELOP"

FileCategories == {"tests", "docs", "source", "config", "ci"}

\* the if/elif chain over one path; "" when no branch takes the file
FileCategory(file) ==
    IF "test" \in file.marks THEN "tests"
    ELSE IF "docs" \in file.marks THEN "docs"
    ELSE IF "ci" \in file.marks THEN "ci"
    ELSE IF "source" \in file.marks THEN "source"
    ELSE IF "config" \in file.marks THEN "config"
    ELSE ""

\* _identify_changed_file_types(git_state): the categories that hold a file,
\* each with its files
_identify_changed_file_types(git_state) ==
    LET result == [k \in FileCategories |-> {f \in git_state.changed_files : FileCategory(f) = k}]
    IN [k \in {c \in FileCategories : result[c] /= {}} |-> result[k]]

\* file_types.get(k): truthy
HasType(file_types, k) == k \in DOMAIN file_types /\ file_types[k] /= {}

Rec(command, reason, confidence) ==
    [command |-> command, reason |-> reason, confidence |-> confidence]

\* the phase-based recommendations
PhaseRecommendations(phase) ==
    IF phase = "START"
    THEN <<Rec("pb-start", "Beginning feature work on new branch", 95)>>
    ELSE IF phase = "DEVELOP"
    THEN <<Rec("pb-cycle", "Iterate on changes, get peer feedback", 90),
           Rec("pb-testing", "Verify test coverage matches code changes", 85)>>
    ELSE IF phase = "FINALIZE"
    THEN <<Rec("pb-commit", "Organize work into logical commits", 90),
           Rec("pb-pr", "Create pull request for integration", 90)>>
    ELSE IF phase = "REVIEW"
    THEN <<Rec("pb-review-code", "Review code logic and patterns", 95),
           Rec("pb-review-tests", "Verify test coverage and quality", 85),
           Rec("pb-security", "Check security implications", 75)>>
    ELSE IF phase = "RELEASE"
    THEN <<Rec("pb-release", "Prepare for production release", 90),
           Rec("pb-deployment", "Plan deployment strategy", 80)>>
    ELSE <<>>

TestsRecommendation == Rec("pb-testing", "Test files changed, verify coverage", 88)

DocsRecommendation == Rec("pb-documentation", "Documentation changed, ensure clarity", 75)

CiRecommendation == Rec("pb-deployment", "CI/CD workflow modified", 70)

CommandsOf(recommendations) == {recommendations[i].command : i \in DOMAIN recommendations}

\* the list before deduplication
ProposedList(phase, file_types) ==
    LET by_phase == PhaseRecommendations(phase)
        with_tests == IF HasType(file_types, "tests") /\ "pb-testing" \notin CommandsOf(by_phase)
                      THEN Append(by_phase, TestsRecommendation) ELSE by_phase
        with_docs == IF HasType(file_types, "docs")
                     THEN Append(with_tests, DocsRecommendation) ELSE with_tests
    IN IF HasType(file_types, "ci") THEN Append(with_docs, CiRecommendation) ELSE with_docs

\* the loop over seen: a dict keeps a key at the place of its first insertion
RECURSIVE Deduplicate(_)
Deduplicate(recommendations) ==
    IF recommendations = <<>> THEN <<>>
    ELSE LET seen == Deduplicate(SubSeq(recommendations, 1, Len(recommendations) - 1))
             rec == recommendations[Len(recommendations)]
             at == {i \in DOMAIN seen : seen[i].command = rec.command}
         IN IF at = {} THEN Append(seen, rec)
            ELSE LET i == CHOOSE j \in at : TRUE
                 IN IF rec.confidence > seen[i].confidence THEN [seen EXCEPT ![i] = rec]
                    ELSE seen

\* _generate_recommendations(git_state, phase, file_types)
_generate_recommendations(git_state, phase, file_types) ==
    Deduplicate(ProposedList(phase, file_types))

NoFileTypes == [k \in {} |-> {}]

AcInit ==
    /\ ac_git_state \in GitStates
    /\ ac_phase = ""
    /\ ac_file_types = NoFileTypes
    /\ ac_recommendations = <<>>
    /\ ac_pc = "git"
    /\ RcIdle
    /\ MvIdle
    /\ EvIdle
    /\ ExIdle
    /\ ScIdle
    /\ FxIdle
    /\ PlIdle
    /\ DxIdle
    /\ GmIdle
    /\ ElIdle

\* _detect_workflow_phase(git_state), first of the three steps of analyze()
AcDetectWorkflowPhase ==
    /\ ac_pc = "git"
    /\ ac_phase' = _detect_workflow_phase(ac_git_state)
    /\ ac_pc' = "phase"
    /\ UNCHANGED <<ac_git_state, ac_file_types, ac_recommendations>>
    /\ UNCHANGED nonAcVars

\* _identify_changed_file_types(git_state), the second step
AcIdentifyChangedFileTypes ==
    /\ ac_pc = "phase"
    /\ ac_file_types' = _identify_changed_file_types(ac_git_state)
    /\ ac_pc' = "typed"
    /\ UNCHANGED <<ac_git_state, ac_phase, ac_recommendations>>
    /\ UNCHANGED nonAcVars

\* _generate_recommendations(git_state, phase, file_types), the third step
AcGenerateRecommendations ==
    /\ ac_pc = "typed"
    /\ ac_recommendations' = _generate_recommendations(ac_git_state, ac_phase, ac_file_types)
    /\ ac_pc' = "generated"
    /\ UNCHANGED <<ac_git_state, ac_phase, ac_file_types>>
    /\ UNCHANGED nonAcVars

\* _generate_recommendations called with a phase and file types of the
\* caller's choice, as the tests call it
AcCallGenerateRecommendations ==
    /\ ac_pc = "git"
    /\ \E phase \in Phases, types \in SUBSET {"tests", "docs", "ci"} :
          /\ ac_phase' = phase
          /\ ac_file_types' = [k \in types |-> {CHOOSE f \in ChangedFiles : FileCategory(f) = k}]
          /\ ac_recommendations' = _generate_recommendations(ac_git_state, phase, ac_file_types')
    /\ ac_pc' = "called"
    /\ UNCHANGED ac_git_state
    /\ UNCHANGED nonAcVars

AcNext ==
    \/ AcDetectWorkflowPhase
    \/ AcIdentifyChangedFileTypes
    \/ AcGenerateRecommendations
    \/ AcCallGenerateRecommendations

SpecAnalyze == AcInit /\ [][AcNext]_vars

(***************************************************************************)
(* Claims about the context analyzer.                                      *)
(***************************************************************************)
PhaseDetected == ac_pc \in {"phase", "typed", "generated"}

AnyChange ==
    \/ ac_git_state.staged_changes
    \/ ac_git_state.unstaged_changes
    \/ ac_git_state.changed_files /= {}

NothingPending == ~ac_git_state.staged_changes /\ ~ac_git_state.unstaged_changes

\* C18: phase detection is a total decision list: branch main or master
\* gives RELEASE; otherwise 0 commits with nothing staged or unstaged gives
\* START; otherwise 1 to 4 commits with any staged, unstaged or changed
\* file gives DEVELOP; otherwise 5 or more commits, or at least one commit
\* with nothing staged or unstaged, gives FINALIZE; otherwise DEVELOP.  The
\* result is one of START, DEVELOP, FINALIZE, RELEASE.
C18_PhaseDecisionList ==
    PhaseDetected =>
        /\ ac_phase \in {"START", "DEVELOP", "FINALIZE", "RELEASE"}
        /\ ac_phase =
              IF ac_git_state.branch \in {"main", "master"} THEN "RELEASE"
              ELSE IF ac_git_state.commit_count = 0 /\ NothingPending THEN "START"
              ELSE IF ac_git_state.commit_count \in 1..4 /\ AnyChange THEN "DEVELOP"
              ELSE IF ac_git_state.commit_count >= 5 THEN "FINALIZE"
              ELSE IF ac_git_state.commit_count >= 1 /\ NothingPending THEN "FINALIZE"
              ELSE "DEVELOP"

\* the last rule of the list decides: no commit yet, something staged
C18_Witness ==
    /\ PhaseDetected
    /\ ac_git_state.branch = "feature/test"
    /\ ac_git_state.commit_count = 0
    /\ ac_git_state.staged_changes
    /\ ac_phase = "DEVELOP"

Generated == ac_pc \in {"generated", "called"}

\* what the rules propose for the phase and the changed file types
Proposals ==
    Range(PhaseRecommendations(ac_phase))
    \cup (IF HasType(ac_file_types, "tests") THEN {TestsRecommendation} ELSE {})
    \cup (IF HasType(ac_file_types, "docs") THEN {DocsRecommendation} ELSE {})
    \cup (IF HasType(ac_file_types, "ci") THEN {CiRecommendation} ELSE {})

\* C19: for every phase and every combination of changed file types the
\* list of _generate_recommendations holds each command at most once, and
\* when several rules propose the same command the entry kept is one with
\* the highest confidence among them.
C19_HighestConfidenceKept ==
    Generated =>
        /\ \A i, j \in DOMAIN ac_recommendations :
              ac_recommendations[i].command = ac_recommendations[j].command => i = j
        /\ CommandsOf(ac_recommendations) = {p.command : p \in Proposals}
        /\ \A i \in DOMAIN ac_recommendations :
              /\ ac_recommendations[i] \in Proposals
              /\ \A p \in Proposals :
                    p.command = ac_recommendations[i].command
                        => p.confidence <= ac_recommendations[i].confidence

(***************************************************************************)
(* examples/python-data-pipeline/src/main.py: Pipeline.ingest_events.      *)
(***************************************************************************)
\* a key the dict does not hold
NoKey == "<missing>"

\* an event as read from a CSV row
EventDict(user_id, event_type) == [user_id |-> user_id, event_type |-> event_type]

\* user_id "x" is not a number
EventDicts == {EventDict(u, t) : u \in {NoKey, "", "1", "x"}, t \in {NoKey, "", "login"}}

\* event_data.get(key): falsy when the key is missing or its value is empty
Falsy(value) == value = NoKey \/ value = ""

\* not event_data.get('user_id') or not event_data.get('event_type')
Skipped(event_data) == Falsy(event_data.user_id) \/ Falsy(event_data.event_type)

\* int(event_data['user_id']) raises ValueError
IntRaises(user_id) == user_id \notin {"1", "2"}

\* int(event_data['user_id'])
IntOf(user_id) == IF user_id = "1" THEN 1 ELSE 2

\* Event(user_id=int(...), event_type=...)
EventRow(event_data) ==
    [user_id |-> IntOf(event_data.user_id), event_type |-> event_data.event_type]

\* the events the loop adds to the session
AddedRows(events) ==
    LET kept == SelectSeq(events, LAMBDA e : ~Skipped(e))
    IN [i \in 1..Len(kept) |-> EventRow(kept[i])]

\* the loop raises at an event it does not skip
LoopRaises(events) ==
    \E i \in 1..Len(events) : ~Skipped(events[i]) /\ IntRaises(events[i].user_id)

\* return len(events)
ingest_return(events) == Len(events)

PlInit ==
    /\ pl_table = <<>>
    /\ pl_events = <<>>
    /\ pl_result = 0
    /\ pl_stored = 0
    /\ pl_pc = "idle"
    /\ pl_runs = 0
    /\ RcIdle
    /\ MvIdle
    /\ EvIdle
    /\ ExIdle
    /\ ScIdle
    /\ FxIdle
    /\ AcIdle
    /\ DxIdle
    /\ GmIdle
    /\ ElIdle

\* ingest_events(events) returns: an empty list returns 0 at once, otherwise
\* the rows added are committed
PlIngestEvents ==
    /\ pl_runs < MaxIngestRuns
    /\ \E events \in SeqsUpTo(EventDicts, MaxEvents) :
          /\ ~LoopRaises(events)
          /\ pl_events' = events
          /\ pl_table' = IF events = <<>> THEN pl_table ELSE pl_table \o AddedRows(events)
          /\ pl_stored' = IF events = <<>> THEN 0 ELSE Len(AddedRows(events))
          /\ pl_result' = IF events = <<>> THEN 0 ELSE ingest_return(events)
    /\ pl_pc' = "returned"
    /\ pl_runs' = pl_runs + 1
    /\ UNCHANGED nonPlVars

\* ingest_events(events) raises: the session is rolled back, nothing is stored
PlIngestEventsRaises ==
    /\ pl_runs < MaxIngestRuns
    /\ \E events \in SeqsUpTo(EventDicts, MaxEvents) :
          /\ LoopRaises(events)
          /\ pl_events' = events
    /\ pl_stored' = 0
    /\ pl_pc' = "raised"
    /\ pl_runs' = pl_runs + 1
    /\ UNCHANGED <<pl_table, pl_result>>
    /\ UNCHANGED nonPlVars

PlNext ==
    \/ PlIngestEvents
    \/ PlIngestEventsRaises

SpecPipeline == PlInit /\ [][PlNext]_vars

(***************************************************************************)
(* Claims about the data pipeline.                                         *)
(***************************************************************************)
\* an event with a user_id and an event_type, both non-empty
ValidEvent(e) ==
    /\ e.user_id /= NoKey
    /\ e.user_id /= ""
    /\ e.event_type /= NoKey
    /\ e.event_type /= ""

\* C20: ingest_events returns the number of events it stored: events with
\* an empty or missing user_id or event_type are skipped and not counted,
\* so a list with k valid and m invalid events returns k (0 for an empty
\* list).
C20_IngestCountsStored ==
    pl_pc = "returned" =>
        /\ pl_result = pl_stored
        /\ pl_result = Cardinality({i \in DOMAIN pl_events : ValidEvent(pl_events[i])})

(***************************************************************************)
(* Claims about repeated runs on one instance.                             *)
(***************************************************************************)
\* the warnings the validation pass gives for the records held
FreshWarnings ==
    Flatten([i \in 1..Len(ex_metadata) |->
               ExCommandWarnings(ex_metadata[i].name, ex_metadata[i].meta, ex_valid_commands)])

\* C21: issues and results are created fresh on every run: after any
\* sequence of extract_all() calls on one extractor the reported errors,
\* warnings and records are exactly those of the corpus given to the last
\* call; nothing produced by an earlier run remains.
C21_ReportsOfLastRunOnly ==
    ExtractDone =>
        /\ ex_errors = NewErrors
        /\ ex_warnings = FreshWarnings

(***************************************************************************)
(* Claims about the validation pass of extract_all.                        *)
(***************************************************************************)
\* the names of the command documents discovered in the file system
DiscoveredNames == {_extract_command_name(f) : f \in Range(discover_commands(ex_fs))}

\* the references of a field that name no discovered command document
Dangling(refs) == {i \in 1..Len(refs) : lstrip(refs[i]) \notin DiscoveredNames}

\* the report has an entry for the document and the field
Reported(command, field) ==
    \E i \in 1..Len(ex_result.warnings \o ex_result.errors) :
        LET entry == (ex_result.warnings \o ex_result.errors)[i]
        IN entry.command = command /\ entry.field = field

\* C22: the validation pass inside extract_all reports every dangling
\* reference: for each extracted document and each reference in its
\* related_commands, next_steps or prerequisites that names no discovered
\* command document, the report has an entry naming the document and the
\* field.
C22_DanglingReferencesReported ==
    (ExtractDone /\ ex_result.assembled) =>
        \A i \in 1..Len(ex_result.commands) :
            \A field \in {"related_commands", "next_steps", "prerequisites"} :
                Dangling(ex_result.commands[i].meta[field]) /= {}
                    => Reported(ex_result.commands[i].name, field)

(***************************************************************************)
(* Claims about the category index.                                        *)
(***************************************************************************)
\* the places of the index that hold a name
PlacesOf(name) ==
    {<<k, j>> \in (1..Len(ex_result.categories)) \X (1..Len(ex_result.commands)) :
        /\ j <= Len(ex_result.categories[k].commands)
        /\ ex_result.categories[k].commands[j] = name}

RECURSIVE CountSum(_)
CountSum(categories) ==
    IF categories = <<>> THEN 0
    ELSE categories[1].count + CountSum(Tail(categories))

\* C23: in the output of every extraction run the category index agrees
\* with the records: the count of a category is the length of its list,
\* every extracted name stands exactly once in the index, in the list of
\* its own category, and the counts sum to total_commands.
C23_CategoryIndexConsistent ==
    (ExtractDone /\ ex_result.assembled) =>
        /\ \A k \in 1..Len(ex_result.categories) :
              ex_result.categories[k].count = Len(ex_result.categories[k].commands)
        /\ \A i \in 1..Len(ex_result.commands) :
              /\ Cardinality(PlacesOf(ex_result.commands[i].name)) = 1
              /\ \A place \in PlacesOf(ex_result.commands[i].name) :
                    ex_result.categories[place[1]].category
                        = ex_result.commands[i].meta.category
        /\ CountSum(ex_result.categories) = ex_result.total_commands

\* a run whose index has a category of two documents
C23_Witness ==
    /\ ExtractDone
    /\ ex_result.assembled
    /\ \E k \in 1..Len(ex_result.categories) : ex_result.categories[k].count = 2

(***************************************************************************)
(* extract-playbook-metadata.py: purpose, tier and frequency of one        *)
(* document, each with its confidence (in hundredths).                     *)
(***************************************************************************)
\* the lines a document for the purpose extractor is made of: a front-matter
\* delimiter, a front-matter field, a blank line, a level-1 heading, a
\* level-2 heading and two lines of prose
DocLines == {"---", "name: x", "", "# T", "## S", "P", "Q"}

FrontMatterBlocks == {<<>>, <<"---", "---">>, <<"---", "name: x", "---">>}

\* a document: a leading front-matter block (or none) and the lines below
PurposeDoc(front_matter, body) ==
    [kind |-> "purpose", front_matter |-> front_matter, body |-> body]

PurposeDocs ==
    {PurposeDoc(fm, b) : fm \in FrontMatterBlocks,
                         b \in SeqsUpTo(DocLines \ {"name: x"}, MaxDocBody)}

\* "\n---\n" or "\n\n" can match at line i: the newline before the line,
\* then the line "---" or an empty line, then its newline
IsSeparator(lines, i) == i >= 2 /\ lines[i] \in {"---", ""}

\* re.split(r"\n---\n|\n\n", content, maxsplit=2)[1] as lines; a separator
\* consumes the newline in front of it, so the line right behind a
\* separator is no separator; found is FALSE when len(parts) < 2
SecondPart(lines) ==
    LET firsts == {i \in 1..Len(lines) : IsSeparator(lines, i)}
    IN IF firsts = {} THEN [found |-> FALSE, text |-> <<>>]
       ELSE LET s1 == Min(firsts)
                seconds == {j \in (s1 + 2)..Len(lines) : IsSeparator(lines, j)}
                s2 == IF seconds = {} THEN Len(lines) + 1 ELSE Min(seconds)
            IN [found |-> TRUE, text |-> SubSeq(lines, s1 + 1, s2 - 1)]

\* text.strip(): the empty lines at both ends go
StripLines(lines) ==
    LET filled == {i \in 1..Len(lines) : lines[i] /= ""}
    IN IF filled = {} THEN <<>>
       ELSE SubSeq(lines, Min(filled), CHOOSE m \in filled : \A i \in filled : i <= m)

\* text.startswith("#")
StartsWithHash(line) == line \in {"# T", "## S"}

\* _extract_purpose(content)
_extract_purpose(content) ==
    LET part == SecondPart(content.front_matter \o content.body)
        text == StripLines(part.text)
    IN IF part.found /\ text /= <<>> /\ ~StartsWithHash(text[1]) THEN text[1] ELSE NoneVal

(* ---- tier and its confidence ---- *)
\* a document for the tier extractor: what the three patterns find, how the
\* marker is written ("Tier:" or "tier:") and whether "##" occurs in it
TierDoc(text, marker_word, h2) ==
    [kind |-> "tier", text |-> text, marker_word |-> marker_word, h2 |-> h2]

TierDocs ==
    {TierDoc(t, w, h) : t \in TierTexts, w \in {"Tier:", "tier:"}, h \in BOOLEAN}

\* "Tier:" in content
HasTierWord(content) == content.text.marker /= <<>> /\ content.marker_word = "Tier:"

\* a record with nothing extracted
BlankMetadata ==
    ScMetadata(FALSE, FALSE, FALSE, FALSE, FALSE, FALSE, FALSE, FALSE, "", FALSE, FALSE)

(* ---- frequency and its confidence ---- *)
Frequencies ==
    <<"daily", "weekly", "start-of-feature", "per-iteration", "per-pr",
      "pre-release", "on-incident", "one-time">>

\* a line on which the pattern of one frequency matches
FrequencyLine(freq) == SectionLine("freq", 0, freq, NoRef)

FrequencyLines ==
    {Heading(2, "When to Use"), Heading(2, "Other"), Heading(3, "Other"), Prose}
    \cup {FrequencyLine(f) : f \in Range(Frequencies)}

FrequencyDoc(lines) == [kind |-> "frequency", lines |-> lines]

FrequencyDocs == {FrequencyDoc(l) : l \in SeqsUpTo(FrequencyLines, MaxFrequencyLines)}

\* re.search(pattern, when_text) for the pattern of freq
PatternMatches(freq, when_text) ==
    \E i \in 1..Len(when_text) : when_text[i].kind = "freq" /\ when_text[i].name = freq

\* _extract_frequency(content)
_extract_frequency(content) ==
    LET when_match == SectionMatch(content.lines, {"When to Use"})
        hits == {i \in 1..Len(Frequencies) : PatternMatches(Frequencies[i], when_match.text)}
    IN IF ~when_match.found \/ hits = {} THEN "as-needed"
       ELSE Frequencies[Min(hits)]

(* ---- skill documents ---- *)
\* the first lines of a document, each given by how it begins: empty, with
\* one of the four openings is_skill_file looks for, as a heading, as prose
OpeningLines == {"", "You are", "You will", "Lets", "You should", "#", "text"}

OpeningDoc(lines) == [kind |-> "opening", lines |-> lines]

OpeningDocs == {OpeningDoc(l) : l \in SeqsUpTo(OpeningLines, MaxOpeningLines)}

\* content.split("\n")[0].strip()
FirstLine(lines) == IF lines = <<>> THEN "" ELSE lines[1]

DxInit ==
    /\ dx_doc \in PurposeDocs \cup TierDocs \cup FrequencyDocs \cup OpeningDocs
    /\ dx_field = "none"
    /\ dx_value = NoneVal
    /\ dx_confidence = 0
    /\ RcIdle
    /\ MvIdle
    /\ EvIdle
    /\ ExIdle
    /\ ScIdle
    /\ FxIdle
    /\ AcIdle
    /\ PlIdle
    /\ GmIdle
    /\ ElIdle

\* "purpose": self._extract_purpose(content), and its confidence
DxExtractPurpose ==
    /\ dx_field = "none"
    /\ dx_doc.kind = "purpose"
    /\ LET purpose == _extract_purpose(dx_doc)
           metadata == [BlankMetadata EXCEPT !.purpose = IF purpose = NoneVal THEN "" ELSE purpose]
       IN /\ dx_value' = purpose
          /\ dx_confidence' = _calculate_confidence_scores(metadata, NoText).purpose
    /\ dx_field' = "purpose"
    /\ UNCHANGED dx_doc
    /\ UNCHANGED nonDxVars

\* "tier": self._extract_tier(content), and its confidence
DxExtractTier ==
    /\ dx_field = "none"
    /\ dx_doc.kind = "tier"
    /\ LET tier == _extract_tier(dx_doc.text)
           metadata == [BlankMetadata EXCEPT !.tier = tier]
           content == ScContent(HasTierWord(dx_doc), dx_doc.h2, FALSE)
       IN /\ dx_value' = tier
          /\ dx_confidence' = _calculate_confidence_scores(metadata, content).tier
    /\ dx_field' = "tier"
    /\ UNCHANGED dx_doc
    /\ UNCHANGED nonDxVars

\* "frequency": self._extract_frequency(content), and its confidence
DxExtractFrequency ==
    /\ dx_field = "none"
    /\ dx_doc.kind = "frequency"
    /\ LET frequency == _extract_frequency(dx_doc)
           metadata == [BlankMetadata EXCEPT !.frequency = frequency]
       IN /\ dx_value' = frequency
          /\ dx_confidence' = _calculate_confidence_scores(metadata, NoText).frequency
    /\ dx_field' = "frequency"
    /\ UNCHANGED dx_doc
    /\ UNCHANGED nonDxVars

\* is_skill_file(content), as _discover_commands calls it on each file
DxClassify ==
    /\ dx_field = "none"
    /\ dx_doc.kind = "opening"
    /\ dx_value' = is_skill_file([NoText EXCEPT !.first_line = FirstLine(dx_doc.lines)])
    /\ dx_field' = "skill"
    /\ UNCHANGED <<dx_doc, dx_confidence>>
    /\ UNCHANGED nonDxVars

DxNext ==
    \/ DxExtractPurpose
    \/ DxExtractTier
    \/ DxExtractFrequency
    \/ DxClassify

SpecDocument == DxInit /\ [][DxNext]_vars

(***************************************************************************)
(* Claims about purpose, tier and frequency.                               *)
(***************************************************************************)
\* the body is a level-1 heading, a blank line and a paragraph of one or
\* two lines that does not start with "#"
HeadingThenParagraph ==
    dx_doc.body \in {<<"# T", "", "P">>, <<"# T", "", "P", "Q">>, <<"# T", "", "Q", "P">>}

\* C24: for a document made of an optional leading front-matter block, a
\* level-1 heading, a blank line and a paragraph that does not start with
\* "#", the purpose extractor returns the first line of that paragraph.
C24_PurposeIsFirstParagraphLine ==
    (dx_field = "purpose" /\ HeadingThenParagraph) => dx_value = dx_doc.body[3]

\* the classes of signal that put a tier into the result
TierFromMarker == MarkerGroups(dx_doc.text.marker) \cap Range(Tiers) /= {}

TierFromRows == RowTiers(dx_doc.text.rows) /= {}

TierFromKeywords == KeywordTiers(dx_doc.text.keywords) /= {}

\* C25: the tier confidence depends only on the class of signal that gave
\* the tier: 0.95 when an explicit Tier: marker is present, 0.85 when the
\* tier came only from table rows, 0.75 when it came only from complexity
\* keywords, 0.0 when no tier was extracted.
C25_TierConfidenceBySignal ==
    dx_field = "tier" =>
        /\ dx_value = <<>> => dx_confidence = 0
        /\ (dx_value /= <<>> /\ dx_doc.text.marker /= <<>>) => dx_confidence = 95
        /\ (dx_doc.text.marker = <<>> /\ TierFromRows /\ ~TierFromKeywords)
              => dx_confidence = 85
        /\ (dx_doc.text.marker = <<>> /\ ~TierFromRows /\ TierFromKeywords)
              => dx_confidence = 75

\* the text of the first level-2 section of the name, up to the next
\* heading of level 2
C26_SectionText == SectionBody(dx_doc.lines, {"When to Use"})

\* C26: frequency is the first value, in the order daily, weekly,
\* start-of-feature, per-iteration, per-pr, pre-release, on-incident,
\* one-time, whose pattern matches the text of the "When to Use" section,
\* and as-needed when the section is absent or no pattern matches; its
\* confidence is 0.60 exactly when the result is as-needed, else 0.85.
C26_FrequencyFirstMatch ==
    dx_field = "frequency" =>
        /\ \A i \in 1..Len(Frequencies) :
              (/\ PatternMatches(Frequencies[i], C26_SectionText)
               /\ \A j \in 1..(i - 1) : ~PatternMatches(Frequencies[j], C26_SectionText))
                  => dx_value = Frequencies[i]
        /\ (\A i \in 1..Len(Frequencies) : ~PatternMatches(Frequencies[i], C26_SectionText))
              => dx_value = "as-needed"
        /\ dx_confidence = IF dx_value = "as-needed" THEN 60 ELSE 85

\* the record of a document with the field the extractor gave
C28_Record ==
    MetaRecord("pb-a", "P",
               IF dx_field = "tier" THEN dx_value ELSE <<>>,
               IF dx_field = "frequency" THEN dx_value ELSE "as-needed",
               <<>>, <<>>, <<>>)

C28_ValidatorTypes ==
    {(CommandErrors("pb-a", C28_Record) \o CommandWarnings("pb-a", C28_Record))[i].type :
        i \in 1..Len(CommandErrors("pb-a", C28_Record) \o CommandWarnings("pb-a", C28_Record))}

\* C28: extractor output satisfies the validator's enumerations: the tier
\* is absent or a non-empty, strictly ascending (XS < S < M < L) list of
\* members of {XS, S, M, L}, the frequency is one of the nine valid
\* values, and MetadataValidator reports neither invalid_tier nor
\* invalid_frequency for the record.
C28_OutputWithinEnumerations ==
    /\ dx_field = "tier" =>
          /\ \A i \in 1..Len(dx_value) : dx_value[i] \in ValidTiers
          /\ \A i, j \in 1..Len(dx_value) :
                i < j => TierRank(dx_value[i]) < TierRank(dx_value[j])
          /\ "invalid_tier" \notin C28_ValidatorTypes
    /\ dx_field = "frequency" =>
          /\ dx_value \in ValidFrequencies
          /\ "invalid_frequency" \notin C28_ValidatorTypes

\* a tier of several members has been extracted
C28_Witness ==
    /\ dx_field = "tier"
    /\ Len(dx_value) >= 2
    /\ dx_doc.text.marker /= <<>>

\* the first line that is not empty ("" when there is none)
FirstNonEmptyLine ==
    LET filled == {i \in 1..Len(dx_doc.lines) : dx_doc.lines[i] /= ""}
    IN IF filled = {} THEN "" ELSE dx_doc.lines[Min(filled)]

\* C27: a document is a skill document exactly when its first non-empty
\* line matches one of the imperative-address patterns ("You are ...",
\* "You will ...", "You should ..."); leading blank lines do not change the
\* classification, and every other document is a regular command document.
C27_SkillByFirstNonEmptyLine ==
    dx_field = "skill" =>
        (dx_value <=> FirstNonEmptyLine \in {"You are", "You will", "You should"})

(***************************************************************************)
(* generate-metadata.py: MetadataGenerator with --apply.                   *)
(* A text is given by the keywords that occur in it as substrings.         *)
(***************************************************************************)
GmCategories ==
    {"core", "planning", "development", "deployment", "reviews", "repo", "people",
     "templates", "utilities"}

MODEL_HINTS ==
    [c \in GmCategories |->
        IF c \in {"planning", "deployment", "reviews"} THEN "opus"
        ELSE IF c \in {"templates", "utilities"} THEN "haiku"
        ELSE "sonnet"]

DIFFICULTY_HINTS ==
    [c \in GmCategories |->
        IF c \in {"core", "templates"} THEN "beginner"
        ELSE IF c \in {"planning", "deployment", "reviews"} THEN "advanced"
        ELSE "intermediate"]

\* the keywords table of extract_tags, in the order of the dict
TagKeywords ==
    <<[tag |-> "design", keywords |-> {"architecture", "pattern", "design"}],
      [tag |-> "testing", keywords |-> {"test", "validation"}],
      [tag |-> "security", keywords |-> {"security", "encrypt", "auth"}],
      [tag |-> "workflow", keywords |-> {"start", "cycle", "commit", "pr", "pause", "resume"}],
      [tag |-> "review", keywords |-> {"review", "audit", "check"}],
      [tag |-> "deployment", keywords |-> {"deploy", "release", "ship"}],
      [tag |-> "documentation", keywords |-> {"doc", "guide", "readme"}],
      [tag |-> "optimization", keywords |-> {"performance", "scale", "efficient"}],
      [tag |-> "debugging", keywords |-> {"debug", "troubleshoot"}]>>

\* the keywords that occur in the name of a tag or of a category
WordsOfValue(value) ==
    CASE value = "design" -> {"design"}
      [] value = "testing" -> {"test"}
      [] value = "security" -> {"security"}
      [] value \in {"review", "reviews"} -> {"review"}
      [] value = "deployment" -> {"deploy"}
      [] value = "documentation" -> {"doc"}
      [] value = "debugging" -> {"debug"}
      [] OTHER -> {}

\* a front-matter block as generate_yaml_front_matter writes it
Block(name, category, difficulty, model_hint, execution_pattern, tags) ==
    [name |-> name, title |-> "Tidy", category |-> category, difficulty |-> difficulty,
     model_hint |-> model_hint, execution_pattern |-> execution_pattern,
     related_commands |-> <<>>, tags |-> tags,
     last_reviewed |-> "2026-02-09", last_evolved |-> ""]

NoBlock == [name |-> ""]

\* the keywords in the text of a block: "pattern" in the key
\* execution_pattern, "review" in the key last_reviewed, and those of the
\* category and the tags
BlockWords(block) ==
    IF block = NoBlock THEN {}
    ELSE {"pattern", "review"} \cup WordsOfValue(block.category)
         \cup UNION {WordsOfValue(block.tags[i]) : i \in 1..Len(block.tags)}

\* a file: its leading front-matter block, if any, and the keywords of the
\* text below it
GmContent(block, body) == [block |-> block, body |-> body]

\* (title + " " + content).lower() and content.lower(): the whole text of
\* the file, front matter included
ContentWords(content) == BlockWords(content.block) \cup content.body

\* extract_tags(content, title, name)
extract_tags(content) ==
    LET hits == SelectSeq(TagKeywords,
                          LAMBDA entry : entry.keywords \cap ContentWords(content) /= {})
    IN [i \in 1..(IF Len(hits) < 5 THEN Len(hits) ELSE 5) |-> hits[i].tag]

\* categorize_difficulty(name, category, content)
categorize_difficulty(category, content) ==
    LET base == DIFFICULTY_HINTS[category]
        has_advanced ==
            {"architecture", "design", "security", "performance", "distributed"}
                \cap ContentWords(content) /= {}
    IN IF has_advanced /\ base = "intermediate" THEN "advanced" ELSE base

\* generate_metadata(filepath) for commands/<category>/pb-tidy.md
generate_metadata(category, content) ==
    Block("pb-tidy", category, categorize_difficulty(category, content),
          MODEL_HINTS[category], "sequential", extract_tags(content))

\* apply_to_file(filepath, metadata): the old block goes, the new one is
\* put on top of the text below
apply_to_file(content, metadata) == GmContent(metadata, content.body)

GmBodyWords == {"design", "test", "review", "deploy", "security", "debug"}

GmInit ==
    /\ gm_category \in {"repo", "core", "reviews"}
    /\ \E body \in SUBSET GmBodyWords, tags \in {<<>>, <<"testing">>} :
          gm_file \in {GmContent(NoBlock, body),
                       GmContent(Block("pb-tidy", gm_category, "beginner", "haiku",
                                       "reference", tags), body)}
    /\ gm_original = gm_file
    /\ gm_runs = 0
    /\ RcIdle
    /\ MvIdle
    /\ EvIdle
    /\ ExIdle
    /\ ScIdle
    /\ FxIdle
    /\ AcIdle
    /\ PlIdle
    /\ DxIdle
    /\ ElIdle

\* main() with --apply: generate_all(), then apply_to_file for every file
GmRunApply ==
    /\ gm_runs < MaxApplyRuns
    /\ gm_file' = apply_to_file(gm_file, generate_metadata(gm_category, gm_file))
    /\ gm_runs' = gm_runs + 1
    /\ UNCHANGED <<gm_category, gm_original>>
    /\ UNCHANGED nonGmVars

GmNext ==
    \/ GmRunApply

SpecGenerate == GmInit /\ [][GmNext]_vars

(***************************************************************************)
(* Claims about metadata regeneration.                                     *)
(***************************************************************************)
\* C29: regeneration is idempotent: a run of generate-metadata --apply
\* over a file that a run has already written leaves it as it is; the
\* file keeps one leading block, the same generated values and its
\* original text below the block.
C29_RegenerationIdempotent ==
    [][gm_runs >= 1 =>
          /\ gm_file' = gm_file
          /\ gm_file'.body = gm_original.body]_vars

(***************************************************************************)
(* evolution-log.py: EvolutionLog.  The time stamps of the entries are     *)
(* left out.                                                               *)
(***************************************************************************)
CycleNames == {"Q1", "Q2"}

\* the dict record_cycle appends
NewCycle(cycle_name) ==
    [cycle |-> cycle_name, changes |-> <<>>, status |-> "in_progress", snapshot_id |-> ""]

\* the dict record_change appends to the changes of a cycle
Change == [command |-> "pb-start", field |-> "model_hint"]

\* the first cycle of the name, 0 when there is none
FindCycle(cycles, cycle_name) ==
    LET found == {i \in 1..Len(cycles) : cycles[i].cycle = cycle_name}
    IN IF found = {} THEN 0 ELSE Min(found)

\* mutant: the status of the cycle is not looked at
find_cycle_of_any_status(cycles, cycle_name) == FindCycle(cycles, cycle_name)

\* the loop of record_change: the first cycle of the name that is in
\* progress, 0 when there is none
FindActiveCycle(cycles, cycle_name) ==
    LET found == {i \in 1..Len(cycles) :
                     cycles[i].cycle = cycle_name /\ cycles[i].status = "in_progress"}
    IN IF found = {} THEN 0 ELSE Min(found)

Called(op, cycle_name, result) == [op |-> op, cycle_name |-> cycle_name, result |-> result]

ElInit ==
    /\ el_cycles = <<>>
    /\ el_last = Called("none", "", FALSE)
    /\ RcIdle
    /\ MvIdle
    /\ EvIdle
    /\ ExIdle
    /\ ScIdle
    /\ FxIdle
    /\ AcIdle
    /\ PlIdle
    /\ DxIdle
    /\ GmIdle

\* record_cycle(cycle_name, trigger, capability_changes)
ElRecordCycle ==
    /\ Len(el_cycles) < MaxCycles
    /\ \E cycle_name \in CycleNames :
          /\ el_cycles' = Append(el_cycles, NewCycle(cycle_name))
          /\ el_last' = Called("record_cycle", cycle_name, TRUE)
    /\ UNCHANGED nonElVars

\* record_change(cycle_name, command, field, before, after, rationale)
ElRecordChange ==
    /\ \E cycle_name \in CycleNames :
          LET i == FindActiveCycle(el_cycles, cycle_name)
          IN IF i = 0
             THEN /\ el_last' = Called("record_change", cycle_name, FALSE)
                  /\ UNCHANGED el_cycles
             ELSE /\ Len(el_cycles[i].changes) < MaxCycleChanges
                  /\ el_cycles' = [el_cycles EXCEPT ![i].changes = Append(@, Change)]
                  /\ el_last' = Called("record_change", cycle_name, TRUE)
    /\ UNCHANGED nonElVars

\* set_cycle_snapshot(cycle_name, snapshot_id)
ElSetCycleSnapshot ==
    /\ \E cycle_name \in CycleNames :
          LET i == FindCycle(el_cycles, cycle_name)
          IN IF i = 0
             THEN /\ el_last' = Called("set_cycle_snapshot", cycle_name, FALSE)
                  /\ UNCHANGED el_cycles
             ELSE /\ el_cycles' = [el_cycles EXCEPT ![i].snapshot_id = "snap-1"]
                  /\ el_last' = Called("set_cycle_snapshot", cycle_name, TRUE)
    /\ UNCHANGED nonElVars

\* complete_cycle(cycle_name, pr_number)
ElCompleteCycle ==
    /\ \E cycle_name \in CycleNames :
          LET i == FindCycle(el_cycles, cycle_name)
          IN IF i = 0
             THEN /\ el_last' = Called("complete_cycle", cycle_name, FALSE)
                  /\ UNCHANGED el_cycles
             ELSE /\ el_cycles' = [el_cycles EXCEPT ![i].status = "completed"]
                  /\ el_last' = Called("complete_cycle", cycle_name, TRUE)
    /\ UNCHANGED nonElVars

\* revert_cycle(cycle_name, reason)
ElRevertCycle ==
    /\ \E cycle_name \in CycleNames :
          LET i == FindCycle(el_cycles, cycle_name)
          IN IF i = 0
             THEN /\ el_last' = Called("revert_cycle", cycle_name, FALSE)
                  /\ UNCHANGED el_cycles
             ELSE /\ el_cycles' = [el_cycles EXCEPT ![i].status = "reverted"]
                  /\ el_last' = Called("revert_cycle", cycle_name, TRUE)
    /\ UNCHANGED nonElVars

ElNext ==
    \/ ElRecordCycle
    \/ ElRecordChange
    \/ ElSetCycleSnapshot
    \/ ElCompleteCycle
    \/ ElRevertCycle

SpecEvolutionLog == ElInit /\ [][ElNext]_vars

(***************************************************************************)
(* Claims about the evolution log.                                         *)
(***************************************************************************)
Closed(cycle) == cycle.status \in {"completed", "reverted"}

\* the cycles of the name that are in progress
ActiveCycles(cycle_name) ==
    {i \in 1..Len(el_cycles) :
        el_cycles[i].cycle = cycle_name /\ el_cycles[i].status = "in_progress"}

\* C30: record_change appends a change only to a cycle of that name whose
\* status is in_progress; when there is none it returns False and leaves
\* the log unchanged.  No operation moves a cycle back to in_progress, and
\* the change list of a completed or reverted cycle is never modified again.
C30_ClosedCyclesKeepChanges ==
    [][/\ el_last'.op = "record_change" =>
             IF ActiveCycles(el_last'.cycle_name) = {}
             THEN ~el_last'.result /\ el_cycles' = el_cycles
             ELSE /\ el_last'.result
                  /\ \E i \in ActiveCycles(el_last'.cycle_name) :
                        el_cycles' = [el_cycles EXCEPT ![i].changes = Append(@, Change)]
       /\ \A i \in 1..Len(el_cycles) :
             Closed(el_cycles[i]) =>
                 /\ i <= Len(el_cycles')
                 /\ Closed(el_cycles'[i])
                 /\ el_cycles'[i].changes = el_cycles[i].changes]_vars

\* record_change has been refused for a closed cycle that holds a change
C30_Witness ==
    /\ el_last = Called("record_change", "Q1", FALSE)
    /\ \E i \in 1..Len(el_cycles) :
          /\ el_cycles[i].cycle = "Q1"
          /\ Closed(el_cycles[i])
          /\ el_cycles[i].changes /= <<>>

====
